---- MODULE Spec2Model ----
(***************************************************************************)
(* Model of the dod-playground "game" (src/source/game.cpp, the            *)
(* array-of-GameObjects variant with a MoveSystem and an AvoidanceSystem)  *)
(* and of the harness calls that drive it (src/source/application.c).      *)
(*                                                                         *)
(* Numbers.  The program computes in float.  The model computes exactly,   *)
(* in fixed point: a position is an integer number of 1/PosScale units, a  *)
(* velocity of 1/VelScale units, a time step of 1/DtScale seconds, so that *)
(* velocity * deltaTime and velocity * deltaTime * 1.1f are both whole     *)
(* numbers of position units.  Float rounding is not modelled.             *)
(*                                                                         *)
(* Entity IDs are the C++ indices (0-based); At(v, i) reads element i of a *)
(* std::vector that the model holds as a sequence.                         *)
(***************************************************************************)
EXTENDS Integers, Sequences, FiniteSets

VARIABLES
    s_Objects,          \* game.cpp:88   the scene, a vector of GameObject
    s_MoveSystem,       \* game.cpp:149  [boundsID, entities]
    s_AvoidanceSystem,  \* game.cpp:230  [avoidDistanceList, avoidList, objectList]
    pc,                 \* where the harness / game_update is
    deltaTime,          \* game_update's deltaTime argument of the running frame
    io,                 \* AvoidanceSystem::UpdateSystem outer loop index
    ia,                 \* AvoidanceSystem::UpdateSystem inner loop index
    data,               \* the harness' sprite_data buffer: index -> record written
    sprite_count,       \* application.c:135  value returned by the last game_update
    frames,             \* number of game_update calls made
    preMove,            \* s_Objects as it was when the running frame's MoveSystem update began
    lastCheck,          \* the last avoider/target test made by the AvoidanceSystem
    goLog,              \* the tests made so far in the running pass of the outer Avoidance loop
    soa_Objects,        \* part_000:979  the scene of the struct-of-arrays variant, an Entities
    oop_Objects,        \* part_000:87   the scene of the per-object variant, a vector of GameObject*
    oop_data,           \* the sprite_data buffer handed to the per-object variant
    misuse,             \* the contract violation the caller has committed, if any
    created,            \* s_Objects as the last game_initialize left it
    visited,            \* the passes of the MoveSystem loop made so far, when made in any order
    progress            \* per avoider, the targets tested so far, when avoiders are interleaved

vars == << s_Objects, s_MoveSystem, s_AvoidanceSystem, pc, deltaTime, io, ia,
           data, sprite_count, frames, preMove, lastCheck, goLog,
           soa_Objects, oop_Objects, oop_data, misuse, created, visited, progress >>

\* the variables the program built from source/game.cpp and driven by
\* application.c as written does not have
otherVars == << soa_Objects, oop_Objects, oop_data, misuse >>

\* the bookkeeping of the loops when their passes are made in any order
orderVars == << visited, progress >>

-----------------------------------------------------------------------------
(* Bounds of the model *)

\* number of "regular" objects game_initialize creates (kObjectCount in the program)
NumObjects == 2
\* number of objects to avoid game_initialize creates (kAvoidCount in the program)
NumAvoid == 2
\* number of game_update calls the harness makes before it stops
MaxFrames == 2
\* number of entities added to an Entities store on its own
MaxEntities == 3
\* number of game_update calls made when the loops' passes are made in any order
OrderFrames == 1

(* Program constants *)
kObjectCount == 1000000
kAvoidCount == 20
kMaxSpriteCount == 1100000

(* Fixed-point units *)
PosScale == 1000
VelScale == 10
DtScale == 10
ColorScale == 100
\* sprite scale and globalScale are held in 1/UnitScale
UnitScale == 100

\* the float literal f as a number of position units, f given in 1/1000
Pos(milli) == (milli * PosScale) \div 1000

\* world rectangle set by game_initialize
xMinInit == Pos(-80000)
xMaxInit == Pos(80000)
yMinInit == Pos(-50000)
yMaxInit == Pos(50000)
\* 1.3f, the distance given to AddAvoidThisObjectToSystem
avoidDistanceInit == Pos(1300)
\* 0.05f
globalScale == (5 * UnitScale) \div 100
\* 1.1f
overshootNum == 11
overshootDen == 10

\* the frame times the harness passes, in 1/DtScale seconds
DeltaTimes == {1, 4000}

-----------------------------------------------------------------------------
(* std::vector helpers *)

At(v, i) == v[i + 1]

Size(v) == Len(v)

SetAt(v, i, e) == [v EXCEPT ![i + 1] = e]

EmplaceBack(v, e) == Append(v, e)

Abs(n) == IF n < 0 THEN -n ELSE n

-----------------------------------------------------------------------------
(* float arithmetic of the systems, in fixed point *)

\* velocity * deltaTime, in position units
VelTimesDt(vel, dt) == (vel * dt * PosScale) \div (VelScale * DtScale)

\* velocity * deltaTime * 1.1f, in position units
VelTimesDtOvershoot(vel, dt) == (VelTimesDt(vel, dt) * overshootNum) \div overshootDen

\* d * d; TLC's integers are 32 bit, so the square of a difference far larger
\* than any avoid distance is held at SquareCap^2, still larger than any
\* avoidDistance^2 the program compares it with
SquareCap == 30000
Square(d) == IF Abs(d) >= SquareCap THEN SquareCap * SquareCap ELSE d * d

-----------------------------------------------------------------------------
(* Components and game objects *)

PositionComponent(x, y) == [x |-> x, y |-> y]

MoveComponent(velx, vely) == [velx |-> velx, vely |-> vely]

SpriteComponent(r, g, b, index, scale) ==
    [colorR |-> r, colorG |-> g, colorB |-> b, spriteIndex |-> index, scale |-> scale]

WorldBoundsComponent(xMin, xMax, yMin, yMax) ==
    [xMin |-> xMin, xMax |-> xMax, yMin |-> yMin, yMax |-> yMax]

\* Values of members the constructor leaves uninitialised and that no code
\* path reads before writing them.
UnreadSprite == SpriteComponent(0, 0, 0, 0, 0)
UnreadWorldBounds == WorldBoundsComponent(0, 0, 0, 0)

\* GameObject::GameObject: the name and the four flags are set, the component
\* data is not.  The position and the velocity the object is left with are
\* whatever the memory held: `junk` is that content.  The flags are one-bit
\* bit-fields that the code only ever tests for being non-zero; a set flag is
\* written 1 here.
GameObject(name, junk) ==
    [ m_Name           |-> name,
      m_Position       |-> junk.pos,
      m_Sprite         |-> UnreadSprite,
      m_WorldBounds    |-> UnreadWorldBounds,
      m_Move           |-> junk.move,
      m_HasPosition    |-> 0,
      m_HasSprite      |-> 0,
      m_HasWorldBounds |-> 0,
      m_HasMove        |-> 0 ]

\* Contents an uninitialised PositionComponent / MoveComponent can have.
Indeterminate ==
    { [pos |-> PositionComponent(0, 0),                    move |-> MoveComponent(0, 0)],
      [pos |-> PositionComponent(Pos(90000), Pos(-60000)), move |-> MoveComponent(7, 0)] }

ZeroJunk == [pos |-> PositionComponent(0, 0), move |-> MoveComponent(0, 0)]

\* Outcomes of the random draws made for one regular object: a position inside
\* the world bounds, a sprite index rand() % 5, a velocity of speed 0.5 .. 0.7.
ObjectDraws ==
    { [pos |-> PositionComponent(Pos(1250), 0),           index |-> 0, move |-> MoveComponent(5, 0)],
      [pos |-> PositionComponent(Pos(1250), 0),           index |-> 4, move |-> MoveComponent(-3, -4)],
      [pos |-> PositionComponent(Pos(79980), 0),          index |-> 2, move |-> MoveComponent(5, 0)],
      [pos |-> PositionComponent(Pos(-79980), Pos(49970)), index |-> 1, move |-> MoveComponent(-3, 4)],
      [pos |-> PositionComponent(Pos(1340), 0),           index |-> 3, move |-> MoveComponent(-5, 0)] }

\* Outcomes of the random draws made for one object to avoid: a position inside
\* the inner fifth of the world bounds, a colour with every channel in
\* 0.5 .. 1.0, a velocity of speed 0.1 .. 0.2.
AvoidDraws ==
    { [pos |-> PositionComponent(0, 0),        r |-> 50,  g |-> 75, b |-> 100, move |-> MoveComponent(1, 0)],
      [pos |-> PositionComponent(Pos(1000), Pos(-1270)), r |-> 100, g |-> 50, b |-> 50, move |-> MoveComponent(0, -2)] }

\* faulty variant of BoundsObject: the bounds object is given the Sprite flag
BoundsObject_WithSprite(junk) ==
    [ GameObject("bounds", junk) EXCEPT
        !.m_WorldBounds    = WorldBoundsComponent(xMinInit, xMaxInit, yMinInit, yMaxInit),
        !.m_HasWorldBounds = 1,
        !.m_HasSprite      = 1 ]

\* the "bounds" object of game_initialize
BoundsObject(junk) ==
    [ GameObject("bounds", junk) EXCEPT
        !.m_WorldBounds    = WorldBoundsComponent(xMinInit, xMaxInit, yMinInit, yMaxInit),
        !.m_HasWorldBounds = 1 ]

\* one "object" of game_initialize
RegularObject(d) ==
    [ GameObject("object", ZeroJunk) EXCEPT
        !.m_Position    = d.pos,
        !.m_HasPosition = 1,
        !.m_Sprite      = SpriteComponent(ColorScale, ColorScale, ColorScale, d.index, UnitScale),
        !.m_HasSprite   = 1,
        !.m_Move        = d.move,
        !.m_HasMove     = 1 ]

\* faulty variant of AvoidObject: the position is not set and not flagged
AvoidObject_NoPosition(d) ==
    [ GameObject("toavoid", ZeroJunk) EXCEPT
        !.m_Sprite      = SpriteComponent(d.r, d.g, d.b, 5, 2 * UnitScale),
        !.m_HasSprite   = 1,
        !.m_Move        = d.move,
        !.m_HasMove     = 1 ]

\* one "toavoid" object of game_initialize
AvoidObject(d) ==
    [ GameObject("toavoid", ZeroJunk) EXCEPT
        !.m_Position    = d.pos,
        !.m_HasPosition = 1,
        !.m_Sprite      = SpriteComponent(d.r, d.g, d.b, 5, 2 * UnitScale),
        !.m_HasSprite   = 1,
        !.m_Move        = d.move,
        !.m_HasMove     = 1 ]

-----------------------------------------------------------------------------
(* MoveSystem *)

MoveSystem_AddObjectToSystem(ms, id) == [ms EXCEPT !.entities = EmplaceBack(@, id)]

MoveSystem_SetBounds(ms, id) == [ms EXCEPT !.boundsID = id]

\* The element of s_Objects that iteration io of MoveSystem::UpdateSystem
\* works on: the code indexes s_Objects with the loop counter itself.
MoveTarget(ms, i) == i

\* faulty variant of MoveBody: the position is mirrored at the bound crossed
\* instead of put onto it, so a far overshoot is caught by the opposite test too
MoveBody_Mirror(go, bounds, dt) ==
    LET x0  == go.m_Position.x + VelTimesDt(go.m_Move.velx, dt)
        y0  == go.m_Position.y + VelTimesDt(go.m_Move.vely, dt)
        vx0 == go.m_Move.velx
        vy0 == go.m_Move.vely
        lowX  == x0 < bounds.xMin
        vx1 == IF lowX THEN -vx0 ELSE vx0
        x1  == IF lowX THEN 2 * bounds.xMin - x0 ELSE x0
        highX == x1 > bounds.xMax
        vx2 == IF highX THEN -vx1 ELSE vx1
        x2  == IF highX THEN bounds.xMax ELSE x1
        lowY  == y0 < bounds.yMin
        vy1 == IF lowY THEN -vy0 ELSE vy0
        y1  == IF lowY THEN 2 * bounds.yMin - y0 ELSE y0
        highY == y1 > bounds.yMax
        vy2 == IF highY THEN -vy1 ELSE vy1
        y2  == IF highY THEN bounds.yMax ELSE y1
    IN  [go EXCEPT !.m_Position = PositionComponent(x2, y2),
                   !.m_Move     = MoveComponent(vx2, vy2)]

\* Body of the loop of MoveSystem::UpdateSystem for one object: integrate,
\* then the four bound tests in the order of the code, each on the values the
\* previous one left.
MoveBody(go, bounds, dt) ==
    LET x0  == go.m_Position.x + VelTimesDt(go.m_Move.velx, dt)
        y0  == go.m_Position.y + VelTimesDt(go.m_Move.vely, dt)
        vx0 == go.m_Move.velx
        vy0 == go.m_Move.vely
        lowX  == x0 < bounds.xMin
        vx1 == IF lowX THEN -vx0 ELSE vx0
        x1  == IF lowX THEN bounds.xMin ELSE x0
        highX == x1 > bounds.xMax
        vx2 == IF highX THEN -vx1 ELSE vx1
        x2  == IF highX THEN bounds.xMax ELSE x1
        lowY  == y0 < bounds.yMin
        vy1 == IF lowY THEN -vy0 ELSE vy0
        y1  == IF lowY THEN bounds.yMin ELSE y0
        highY == y1 > bounds.yMax
        vy2 == IF highY THEN -vy1 ELSE vy1
        y2  == IF highY THEN bounds.yMax ELSE y1
    IN  [go EXCEPT !.m_Position = PositionComponent(x2, y2),
                   !.m_Move     = MoveComponent(vx2, vy2)]

\* faulty variant of MoveStep: the pass integrates with the velocity of the
\* object stored before the one it works on, as that object has it by now
MoveStep_NeighbourVelocity(objs, ms, dt, i) ==
    LET bounds == At(objs, ms.boundsID).m_WorldBounds
        k      == MoveTarget(ms, i)
        go     == At(objs, k)
        lead   == IF k > 0 THEN At(objs, k - 1).m_Move ELSE go.m_Move
    IN  SetAt(objs, k, MoveBody([go EXCEPT !.m_Move = lead], bounds, dt))

\* faulty variant of MoveStep: the object is moved and not tested against the
\* bounds
MoveStep_NoBoundsTest(objs, ms, dt, i) ==
    LET k  == MoveTarget(ms, i)
        go == At(objs, k)
    IN  SetAt(objs, k, [go EXCEPT !.m_Position =
                           PositionComponent(go.m_Position.x + VelTimesDt(go.m_Move.velx, dt),
                                             go.m_Position.y + VelTimesDt(go.m_Move.vely, dt))])

\* Pass number i of the loop of MoveSystem::UpdateSystem: the bounds are read
\* through boundsID, one object is read, moved and written back.
MoveStep(objs, ms, dt, i) ==
    LET bounds == At(objs, ms.boundsID).m_WorldBounds
        k      == MoveTarget(ms, i)
    IN  SetAt(objs, k, MoveBody(At(objs, k), bounds, dt))

RECURSIVE MoveLoop(_, _, _, _, _)
MoveLoop(objs, ms, dt, i, no) ==
    IF i = no THEN objs
    ELSE MoveLoop(MoveStep(objs, ms, dt, i), ms, dt, i + 1, no)

MoveSystem_UpdateSystem(objs, ms, dt) == MoveLoop(objs, ms, dt, 0, Size(ms.entities))

-----------------------------------------------------------------------------
(* AvoidanceSystem *)

AddAvoidThisObjectToSystem(as, id, distance) ==
    [as EXCEPT !.avoidList = EmplaceBack(@, id),
               !.avoidDistanceList = EmplaceBack(@, distance)]

Avoidance_AddObjectToSystem(as, id) == [as EXCEPT !.objectList = EmplaceBack(@, id)]

DistanceSq(a, b) ==
    LET dx == a.x - b.x
        dy == a.y - b.y
    IN  Square(dx) + Square(dy)

\* faulty variant of IsCloser: <= in place of <
IsCloser_Inclusive(myposition, avoidposition, avDistance) ==
    DistanceSq(myposition, avoidposition) <= avDistance * avDistance

\* the test of AvoidanceSystem::UpdateSystem
IsCloser(myposition, avoidposition, avDistance) ==
    DistanceSq(myposition, avoidposition) < avDistance * avDistance

\* faulty variant of ResolveCollision: the position is advanced before the
\* velocity is flipped
ResolveCollision_MoveThenFlip(go, dt) ==
    [go EXCEPT !.m_Position = PositionComponent(@.x + VelTimesDtOvershoot(go.m_Move.velx, dt),
                                                @.y + VelTimesDtOvershoot(go.m_Move.vely, dt)),
               !.m_Move     = MoveComponent(-go.m_Move.velx, -go.m_Move.vely)]

\* faulty variant of ResolveCollision: the avoider is stopped where it is
ResolveCollision_Stop(go, dt) == [go EXCEPT !.m_Move = MoveComponent(0, 0)]

\* faulty variant of ResolveCollision: the factor 1.1 is applied to the
\* velocity, which is then integrated as in the MoveSystem
ResolveCollision_ScaledVelocity(go, dt) ==
    LET velx == (-go.m_Move.velx * overshootNum) \div overshootDen
        vely == (-go.m_Move.vely * overshootNum) \div overshootDen
    IN  [go EXCEPT !.m_Move     = MoveComponent(velx, vely),
                   !.m_Position = PositionComponent(@.x + VelTimesDt(velx, dt),
                                                    @.y + VelTimesDt(vely, dt))]

ResolveCollision(go, dt) ==
    LET velx == -go.m_Move.velx
        vely == -go.m_Move.vely
    IN  [go EXCEPT !.m_Move     = MoveComponent(velx, vely),
                   !.m_Position = PositionComponent(@.x + VelTimesDtOvershoot(velx, dt),
                                                    @.y + VelTimesDtOvershoot(vely, dt))]

\* faulty variant of TakeColor: the two colours are averaged
TakeColor_Blend(go, avoid) ==
    [go EXCEPT !.m_Sprite.colorR = (@ + avoid.m_Sprite.colorR) \div 2,
               !.m_Sprite.colorG = (@ + avoid.m_Sprite.colorG) \div 2,
               !.m_Sprite.colorB = (@ + avoid.m_Sprite.colorB) \div 2]

\* faulty variant of TakeColor: the whole SpriteComponent is copied
TakeColor_WholeSprite(go, avoid) == [go EXCEPT !.m_Sprite = avoid.m_Sprite]

\* faulty variant of TakeColor: only a sprite that is still white is recoloured
TakeColor_OnlyIfWhite(go, avoid) ==
    IF go.m_Sprite.colorR = ColorScale /\ go.m_Sprite.colorG = ColorScale
           /\ go.m_Sprite.colorB = ColorScale
    THEN [go EXCEPT !.m_Sprite.colorR = avoid.m_Sprite.colorR,
                    !.m_Sprite.colorG = avoid.m_Sprite.colorG,
                    !.m_Sprite.colorB = avoid.m_Sprite.colorB]
    ELSE go

\* the colour assignments after ResolveCollision
TakeColor(go, avoid) ==
    [go EXCEPT !.m_Sprite.colorR = avoid.m_Sprite.colorR,
               !.m_Sprite.colorG = avoid.m_Sprite.colorG,
               !.m_Sprite.colorB = avoid.m_Sprite.colorB]

\* faulty variant of AvoidBody: the collision is resolved on the object to avoid
AvoidBody_ResolveTarget(objs, as, i, a, dt) ==
    LET goID       == At(as.objectList, i)
        avoidID    == At(as.avoidList, a)
        avDistance == At(as.avoidDistanceList, a)
        go         == At(objs, goID)
        avoid      == At(objs, avoidID)
    IN  IF IsCloser(go.m_Position, avoid.m_Position, avDistance)
        THEN SetAt(SetAt(objs, avoidID, ResolveCollision(avoid, dt)), goID, TakeColor(go, avoid))
        ELSE objs

\* One pass of the inner loop body of AvoidanceSystem::UpdateSystem, for
\* object number i of objectList and entry number a of avoidList.
AvoidBody(objs, as, i, a, dt) ==
    LET goID       == At(as.objectList, i)
        avoidID    == At(as.avoidList, a)
        avDistance == At(as.avoidDistanceList, a)
        go         == At(objs, goID)
        avoid      == At(objs, avoidID)
    IN  IF IsCloser(go.m_Position, avoid.m_Position, avDistance)
        THEN SetAt(objs, goID, TakeColor(ResolveCollision(go, dt), avoid))
        ELSE objs

\* the two nested loops of AvoidanceSystem::UpdateSystem, run to their end
RECURSIVE AvoidLoop(_, _, _, _, _)
AvoidLoop(objs, as, dt, i, a) ==
    IF i = Size(as.objectList) THEN objs
    ELSE IF a = Size(as.avoidList) THEN AvoidLoop(objs, as, dt, i + 1, 0)
    ELSE AvoidLoop(AvoidBody(objs, as, i, a, dt), as, dt, i, a + 1)

AvoidanceSystem_UpdateSystem(objs, as, dt) == AvoidLoop(objs, as, dt, 0, 0)

-----------------------------------------------------------------------------
(* game_update: the scan that writes the sprite data *)

\* faulty variant of SpriteData: globalScale applied to the colour as well
SpriteData_ColorScaled(go) ==
    [ posX   |-> go.m_Position.x * globalScale,
      posY   |-> go.m_Position.y * globalScale,
      scale  |-> go.m_Sprite.scale * globalScale,
      colR   |-> go.m_Sprite.colorR * globalScale,
      colG   |-> go.m_Sprite.colorG * globalScale,
      colB   |-> go.m_Sprite.colorB * globalScale,
      sprite |-> go.m_Sprite.spriteIndex ]

\* the record written for one object
SpriteData(go) ==
    [ posX   |-> go.m_Position.x * globalScale,
      posY   |-> go.m_Position.y * globalScale,
      scale  |-> go.m_Sprite.scale * globalScale,
      colR   |-> go.m_Sprite.colorR,
      colG   |-> go.m_Sprite.colorG,
      colB   |-> go.m_Sprite.colorB,
      sprite |-> go.m_Sprite.spriteIndex ]

\* faulty variant of WriteData: data[++objectCount] in place of data[objectCount++]
WriteData_PreIncrement(buf, k, rec) ==
    [j \in (DOMAIN buf) \cup {k + 1} |-> IF j = k + 1 THEN rec ELSE buf[j]]

\* data[k] = rec
WriteData(buf, k, rec) ==
    [j \in (DOMAIN buf) \cup {k} |-> IF j = k THEN rec ELSE buf[j]]

\* faulty variant of IsDrawn: the flags are not tested
IsDrawn_Always(go) == TRUE

\* the condition under which an object is written out
IsDrawn(go) == go.m_HasPosition # 0 /\ go.m_HasSprite # 0

\* the range-for over s_Objects; yields the buffer and objectCount
RECURSIVE ScanLoop(_, _, _, _)
ScanLoop(objs, i, buf, objectCount) ==
    IF i = Size(objs) THEN [data |-> buf, objectCount |-> objectCount]
    ELSE IF IsDrawn(At(objs, i))
         THEN ScanLoop(objs, i + 1, WriteData(buf, objectCount, SpriteData(At(objs, i))),
                       objectCount + 1)
         ELSE ScanLoop(objs, i + 1, buf, objectCount)

-----------------------------------------------------------------------------
(* game_initialize *)

\* the statics before game_initialize: empty vectors, boundsID zero-initialised
EmptyMoveSystem == [boundsID |-> 0, entities |-> << >>]

EmptyAvoidanceSystem == [avoidDistanceList |-> << >>, avoidList |-> << >>, objectList |-> << >>]

\* faulty variant of CreateBounds: SetBounds is called after emplace_back
CreateBounds_SetAfter(st, junk) ==
    [st EXCEPT !.ms   = MoveSystem_SetBounds(@, Size(st.objs) + 1),
               !.objs = EmplaceBack(@, BoundsObject(junk))]

\* the block that creates the "bounds" object
CreateBounds(st, junk) ==
    [st EXCEPT !.ms   = MoveSystem_SetBounds(@, Size(st.objs)),
               !.objs = EmplaceBack(@, BoundsObject(junk))]

\* faulty variant of CreateObjects: the loop condition is i <= kObjectCount
RECURSIVE CreateObjects_OneMore(_, _, _)
CreateObjects_OneMore(st, draws, i) ==
    IF i > Len(draws) + 1 THEN st
    ELSE CreateObjects_OneMore(
            [st EXCEPT !.ms   = MoveSystem_AddObjectToSystem(@, Size(st.objs)),
                       !.as   = Avoidance_AddObjectToSystem(@, Size(st.objs)),
                       !.objs = EmplaceBack(@, RegularObject(draws[IF i > Len(draws) THEN 1 ELSE i]))],
            draws, i + 1)

\* the loop that creates the regular objects; draws[i] are the random draws of pass i
RECURSIVE CreateObjects(_, _, _)
CreateObjects(st, draws, i) ==
    IF i > Len(draws) THEN st
    ELSE CreateObjects(
            [st EXCEPT !.ms   = MoveSystem_AddObjectToSystem(@, Size(st.objs)),
                       !.as   = Avoidance_AddObjectToSystem(@, Size(st.objs)),
                       !.objs = EmplaceBack(@, RegularObject(draws[i]))],
            draws, i + 1)

\* faulty variant of CreateAvoids: the ID registered is s_Objects.size() after emplace_back
RECURSIVE CreateAvoids_RegisterAfter(_, _, _)
CreateAvoids_RegisterAfter(st, draws, i) ==
    IF i > Len(draws) THEN st
    ELSE CreateAvoids_RegisterAfter(
            [st EXCEPT !.ms   = MoveSystem_AddObjectToSystem(@, Size(st.objs) + 1),
                       !.as   = AddAvoidThisObjectToSystem(@, Size(st.objs) + 1, avoidDistanceInit),
                       !.objs = EmplaceBack(@, AvoidObject(draws[i]))],
            draws, i + 1)

\* the loop that creates the objects to avoid
RECURSIVE CreateAvoids(_, _, _)
CreateAvoids(st, draws, i) ==
    IF i > Len(draws) THEN st
    ELSE CreateAvoids(
            [st EXCEPT !.ms   = MoveSystem_AddObjectToSystem(@, Size(st.objs)),
                       !.as   = AddAvoidThisObjectToSystem(@, Size(st.objs), avoidDistanceInit),
                       !.objs = EmplaceBack(@, AvoidObject(draws[i]))],
            draws, i + 1)

Initialized(st, junk, objectDraws, avoidDraws) ==
    CreateAvoids(CreateObjects(CreateBounds(st, junk), objectDraws, 1), avoidDraws, 1)

-----------------------------------------------------------------------------
(* The struct-of-arrays variant (part_000:862-1237): the entity store *)

\* Entities::kFlag...
kFlagPosition == 1
kFlagSprite == 2
kFlagWorldBounds == 4
kFlagMove == 8

\* flags & bit
HasFlag(flags, bit) == (flags \div bit) % 2 = 1

\* flags | bit
OrFlag(flags, bit) == IF HasFlag(flags, bit) THEN flags ELSE flags + bit

\* static Entities s_Objects before game_initialize: six empty vectors
EmptyEntities ==
    [ m_Names       |-> << >>,
      m_Positions   |-> << >>,
      m_Sprites     |-> << >>,
      m_WorldBounds |-> << >>,
      m_Moves       |-> << >>,
      m_Flags       |-> << >> ]

\* faulty variant of Entities::AddEntity: nothing is pushed onto m_Moves
Entities_AddEntity_NoMove(e, name) ==
    [ id |-> Size(e.m_Names),
      e  |-> [ m_Names       |-> EmplaceBack(e.m_Names, name),
               m_Positions   |-> EmplaceBack(e.m_Positions, PositionComponent(0, 0)),
               m_Sprites     |-> EmplaceBack(e.m_Sprites, SpriteComponent(0, 0, 0, 0, 0)),
               m_WorldBounds |-> EmplaceBack(e.m_WorldBounds, WorldBoundsComponent(0, 0, 0, 0)),
               m_Moves       |-> e.m_Moves,
               m_Flags       |-> EmplaceBack(e.m_Flags, 0) ] ]

\* Entities::AddEntity: yields the store and the ID returned
Entities_AddEntity(e, name) ==
    [ id |-> Size(e.m_Names),
      e  |-> [ m_Names       |-> EmplaceBack(e.m_Names, name),
               m_Positions   |-> EmplaceBack(e.m_Positions, PositionComponent(0, 0)),
               m_Sprites     |-> EmplaceBack(e.m_Sprites, SpriteComponent(0, 0, 0, 0, 0)),
               m_WorldBounds |-> EmplaceBack(e.m_WorldBounds, WorldBoundsComponent(0, 0, 0, 0)),
               m_Moves       |-> EmplaceBack(e.m_Moves, MoveComponent(0, 0)),
               m_Flags       |-> EmplaceBack(e.m_Flags, 0) ] ]

\* the Position and Move of entity id, as the pair MoveBody and
\* ResolveCollision work on
EntityMotion(e, id) == [m_Position |-> At(e.m_Positions, id), m_Move |-> At(e.m_Moves, id)]

\* the store with the Position and Move of entity id taken from `go`
WithMotion(e, id, go) ==
    [e EXCEPT !.m_Positions = SetAt(@, id, go.m_Position),
              !.m_Moves     = SetAt(@, id, go.m_Move)]

(* The struct-of-arrays variant: the systems *)

\* PositionComponent& pos = s_Objects.m_Positions[io]
SoA_MoveTarget(ms, i) == i

\* MoveSystem::UpdateSystem; the loop body is that of game.cpp, statement for statement
RECURSIVE SoA_MoveLoop(_, _, _, _, _)
SoA_MoveLoop(e, ms, dt, i, no) ==
    IF i = no THEN e
    ELSE LET bounds == At(e.m_WorldBounds, ms.boundsID)
             k      == SoA_MoveTarget(ms, i)
         IN  SoA_MoveLoop(WithMotion(e, k, MoveBody(EntityMotion(e, k), bounds, dt)),
                          ms, dt, i + 1, no)

SoA_MoveSystem_UpdateSystem(e, ms, dt) == SoA_MoveLoop(e, ms, dt, 0, Size(ms.entities))

\* AvoidanceSystem::AddAvoidThisObjectToSystem: the distance is stored squared
SoA_AddAvoidThisObjectToSystem(as, id, distance) ==
    [as EXCEPT !.avoidList         = EmplaceBack(@, id),
               !.avoidDistanceList = EmplaceBack(@, distance * distance)]

\* one pass of the inner loop body of AvoidanceSystem::UpdateSystem
SoA_AvoidBody(e, as, i, a, dt) ==
    LET go         == At(as.objectList, i)
        avDistance == At(as.avoidDistanceList, a)
        avoid      == At(as.avoidList, a)
    IN  IF DistanceSq(At(e.m_Positions, go), At(e.m_Positions, avoid)) < avDistance
        THEN LET resolved == WithMotion(e, go, ResolveCollision(EntityMotion(e, go), dt))
                 mySprite == TakeColor([m_Sprite |-> At(e.m_Sprites, go)],
                                       [m_Sprite |-> At(e.m_Sprites, avoid)]).m_Sprite
             IN  [resolved EXCEPT !.m_Sprites = SetAt(@, go, mySprite)]
        ELSE e

\* the two nested loops of AvoidanceSystem::UpdateSystem
RECURSIVE SoA_AvoidLoop(_, _, _, _, _)
SoA_AvoidLoop(e, as, dt, i, a) ==
    IF i = Size(as.objectList) THEN e
    ELSE IF a = Size(as.avoidList) THEN SoA_AvoidLoop(e, as, dt, i + 1, 0)
    ELSE SoA_AvoidLoop(SoA_AvoidBody(e, as, i, a, dt), as, dt, i, a + 1)

SoA_AvoidanceSystem_UpdateSystem(e, as, dt) == SoA_AvoidLoop(e, as, dt, 0, 0)

(* The struct-of-arrays variant: game_initialize and game_update *)

\* the block that creates the "bounds" entity
SoA_CreateBounds(st) ==
    LET added == Entities_AddEntity(st.objs, "bounds")
        go    == added.id
    IN  [st EXCEPT
            !.objs = [added.e EXCEPT
                        !.m_WorldBounds = SetAt(@, go, WorldBoundsComponent(xMinInit, xMaxInit,
                                                                            yMinInit, yMaxInit)),
                        !.m_Flags       = SetAt(@, go, OrFlag(At(@, go), kFlagWorldBounds))],
            !.ms   = MoveSystem_SetBounds(@, go)]

\* the loop that creates the regular entities
RECURSIVE SoA_CreateObjects(_, _, _)
SoA_CreateObjects(st, draws, i) ==
    IF i > Len(draws) THEN st
    ELSE LET added == Entities_AddEntity(st.objs, "object")
             go    == added.id
             d     == draws[i]
         IN  SoA_CreateObjects(
                [st EXCEPT
                    !.objs = [added.e EXCEPT
                                !.m_Positions = SetAt(@, go, d.pos),
                                !.m_Sprites   = SetAt(@, go, SpriteComponent(ColorScale, ColorScale,
                                                             ColorScale, d.index, UnitScale)),
                                !.m_Moves     = SetAt(@, go, d.move),
                                !.m_Flags     = SetAt(@, go,
                                    OrFlag(OrFlag(OrFlag(At(@, go), kFlagPosition), kFlagSprite),
                                           kFlagMove))],
                    !.ms   = MoveSystem_AddObjectToSystem(@, go),
                    !.as   = Avoidance_AddObjectToSystem(@, go)],
                draws, i + 1)

\* the loop that creates the entities to avoid
RECURSIVE SoA_CreateAvoids(_, _, _)
SoA_CreateAvoids(st, draws, i) ==
    IF i > Len(draws) THEN st
    ELSE LET added == Entities_AddEntity(st.objs, "toavoid")
             go    == added.id
             d     == draws[i]
         IN  SoA_CreateAvoids(
                [st EXCEPT
                    !.objs = [added.e EXCEPT
                                !.m_Positions = SetAt(@, go, d.pos),
                                !.m_Sprites   = SetAt(@, go, SpriteComponent(d.r, d.g, d.b, 5,
                                                                             2 * UnitScale)),
                                !.m_Moves     = SetAt(@, go, d.move),
                                !.m_Flags     = SetAt(@, go,
                                    OrFlag(OrFlag(OrFlag(At(@, go), kFlagPosition), kFlagSprite),
                                           kFlagMove))],
                    !.ms   = MoveSystem_AddObjectToSystem(@, go),
                    !.as   = SoA_AddAvoidThisObjectToSystem(@, go, avoidDistanceInit)],
                draws, i + 1)

SoA_Initialized(st, objectDraws, avoidDraws) ==
    SoA_CreateAvoids(SoA_CreateObjects(SoA_CreateBounds(st), objectDraws, 1), avoidDraws, 1)

\* the scan over m_Flags; yields the buffer and objectCount
RECURSIVE SoA_ScanLoop(_, _, _, _)
SoA_ScanLoop(e, i, buf, objectCount) ==
    IF i = Size(e.m_Flags) THEN [data |-> buf, objectCount |-> objectCount]
    ELSE IF HasFlag(At(e.m_Flags, i), kFlagPosition) /\ HasFlag(At(e.m_Flags, i), kFlagSprite)
         THEN SoA_ScanLoop(e, i + 1,
                           WriteData(buf, objectCount,
                                     SpriteData([m_Position |-> At(e.m_Positions, i),
                                                 m_Sprite   |-> At(e.m_Sprites, i)])),
                           objectCount + 1)
         ELSE SoA_ScanLoop(e, i + 1, buf, objectCount)

\* the body of game_destroy: empty
SoA_Destroyed(e) == e

-----------------------------------------------------------------------------
(* The per-object variant (part_000:1-403): game objects that own components *)

\* a component of class `type` with the data members `value`
Component(type, value) == [type |-> type, value |-> value]

\* GameObject::GetComponent<T>: the place in m_Components of the first
\* component of class T, 0 for nullptr
GetComponent(go, type) ==
    IF \E k \in 1 .. Len(go.m_Components) : go.m_Components[k].type = type
    THEN CHOOSE k \in 1 .. Len(go.m_Components) :
            /\ go.m_Components[k].type = type
            /\ \A j \in 1 .. k - 1 : go.m_Components[j].type # type
    ELSE 0

\* the data members of the component GetComponent<T> returns
Members(go, type) == go.m_Components[GetComponent(go, type)].value

\* a write through the pointer GetComponent<T> returns
WithMembers(go, type, value) == [go EXCEPT !.m_Components[GetComponent(go, type)].value = value]

\* FindAllComponentsOfType<T>: the indices in s_Objects of the objects that
\* own the components found, in scene order
RECURSIVE FindAllComponentsOfType(_, _, _)
FindAllComponentsOfType(objs, type, i) ==
    IF i = Size(objs) THEN << >>
    ELSE (IF GetComponent(At(objs, i), type) # 0 THEN << i >> ELSE << >>)
            \o FindAllComponentsOfType(objs, type, i + 1)

\* FindOfType<T>: the object that owns the first component found
FindOfType(objs, type) == FindAllComponentsOfType(objs, type, 0)[1]

\* the Position and Move of a game object, as the pair MoveBody and
\* ResolveCollision work on
ObjectMotion(go) ==
    [m_Position |-> Members(go, "PositionComponent"), m_Move |-> Members(go, "MoveComponent")]

WithObjectMotion(go, moved) ==
    WithMembers(WithMembers(go, "PositionComponent", moved.m_Position),
                "MoveComponent", moved.m_Move)

\* MoveComponent::Update of object g; its statements are those of the
\* MoveSystem loop body of game.cpp
MoveComponent_Update(objs, g, dt) ==
    LET bounds == Members(At(objs, FindOfType(objs, "WorldBoundsComponent")), "WorldBoundsComponent")
        go     == At(objs, g)
    IN  SetAt(objs, g, WithObjectMotion(go, MoveBody(ObjectMotion(go), bounds, dt)))

\* the loop of AvoidComponent::Update of object g over AvoidComponent::avoidList
RECURSIVE AvoidComponent_Loop(_, _, _, _, _)
AvoidComponent_Loop(objs, g, avoidList, a, dt) ==
    IF a > Len(avoidList) THEN objs
    ELSE LET go == At(objs, g)
             av == At(objs, avoidList[a])
         IN  IF IsCloser(Members(go, "PositionComponent"), Members(av, "PositionComponent"),
                         Members(av, "AvoidThisComponent").distance)
             THEN LET resolved == WithObjectMotion(go, ResolveCollision(ObjectMotion(go), dt))
                      mySprite == TakeColor([m_Sprite |-> Members(go, "SpriteComponent")],
                                            [m_Sprite |-> Members(av, "SpriteComponent")]).m_Sprite
                  IN  AvoidComponent_Loop(
                          SetAt(objs, g, WithMembers(resolved, "SpriteComponent", mySprite)),
                          g, avoidList, a + 1, dt)
             ELSE AvoidComponent_Loop(objs, g, avoidList, a + 1, dt)

\* AvoidComponent::Update of object g; avoidList is what the first Start() found
AvoidComponent_Update(objs, g, dt) ==
    AvoidComponent_Loop(objs, g, FindAllComponentsOfType(objs, "AvoidThisComponent", 0), 1, dt)

\* GameObject::Update of object g: Update of its components, in the order added
RECURSIVE GameObject_Update(_, _, _, _)
GameObject_Update(objs, g, c, dt) ==
    IF c > Len(At(objs, g).m_Components) THEN objs
    ELSE LET type == At(objs, g).m_Components[c].type
         IN  GameObject_Update(
                IF type = "MoveComponent" THEN MoveComponent_Update(objs, g, dt)
                ELSE IF type = "AvoidComponent" THEN AvoidComponent_Update(objs, g, dt)
                ELSE objs,
                g, c + 1, dt)

\* the loop of game_update over s_Objects: each object is updated and then
\* written out; yields the scene, the buffer and objectCount
RECURSIVE PerObject_UpdateLoop(_, _, _, _, _)
PerObject_UpdateLoop(objs, g, buf, objectCount, dt) ==
    IF g = Size(objs) THEN [objs |-> objs, data |-> buf, objectCount |-> objectCount]
    ELSE LET updated == GameObject_Update(objs, g, 1, dt)
             go      == At(updated, g)
         IN  IF GetComponent(go, "PositionComponent") # 0 /\ GetComponent(go, "SpriteComponent") # 0
             THEN PerObject_UpdateLoop(
                     updated, g + 1,
                     WriteData(buf, objectCount,
                               SpriteData([m_Position |-> Members(go, "PositionComponent"),
                                           m_Sprite   |-> Members(go, "SpriteComponent")])),
                     objectCount + 1, dt)
             ELSE PerObject_UpdateLoop(updated, g + 1, buf, objectCount, dt)

\* the three kinds of game object game_initialize creates
PerObject_Bounds ==
    [ m_Name       |-> "bounds",
      m_Components |-> << Component("WorldBoundsComponent",
                                    WorldBoundsComponent(xMinInit, xMaxInit, yMinInit, yMaxInit)) >> ]

PerObject_Regular(d) ==
    [ m_Name       |-> "object",
      m_Components |-> << Component("PositionComponent", d.pos),
                          Component("SpriteComponent",
                                    SpriteComponent(ColorScale, ColorScale, ColorScale,
                                                    d.index, UnitScale)),
                          Component("MoveComponent", d.move),
                          Component("AvoidComponent", << >>) >> ]

PerObject_Avoid(d) ==
    [ m_Name       |-> "toavoid",
      m_Components |-> << Component("PositionComponent", d.pos),
                          Component("SpriteComponent",
                                    SpriteComponent(d.r, d.g, d.b, 5, 2 * UnitScale)),
                          Component("MoveComponent", d.move),
                          Component("AvoidThisComponent", [distance |-> avoidDistanceInit]) >> ]

\* the scene game_initialize builds from the draws
PerObject_Initialized(objectDraws, avoidDraws) ==
    << PerObject_Bounds >>
        \o [k \in 1 .. Len(objectDraws) |-> PerObject_Regular(objectDraws[k])]
        \o [k \in 1 .. Len(avoidDraws) |-> PerObject_Avoid(avoidDraws[k])]

-----------------------------------------------------------------------------
(* The state machine *)

NoCheck == [valid |-> FALSE]

\* the caller has kept to the call contract; the buffer is the harness' own
NoMisuse == [kind |-> "none", at |-> 0, capacity |-> kMaxSpriteCount]

Init ==
    /\ s_Objects = << >>
    /\ s_MoveSystem = EmptyMoveSystem
    /\ s_AvoidanceSystem = EmptyAvoidanceSystem
    /\ pc = "start"
    /\ deltaTime = 0
    /\ io = 0
    /\ ia = 0
    /\ data = << >>
    /\ sprite_count = 0
    /\ frames = 0
    /\ preMove = << >>
    /\ lastCheck = NoCheck
    /\ goLog = << >>
    /\ soa_Objects = EmptyEntities
    /\ oop_Objects = << >>
    /\ oop_data = << >>
    /\ misuse = NoMisuse
    /\ created = << >>
    /\ visited = [ passes |-> {}, inOrder |-> TRUE ]
    /\ progress = [ tested |-> << >>, inOrder |-> TRUE ]

\* application.c init(): game_initialize()
game_initialize ==
    /\ pc = "start"
    /\ \E junk \in Indeterminate :
       \E objectDraws \in [1 .. NumObjects -> ObjectDraws] :
       \E avoidDraws \in [1 .. NumAvoid -> AvoidDraws] :
          LET st == Initialized([objs |-> s_Objects, ms |-> s_MoveSystem, as |-> s_AvoidanceSystem],
                                junk, objectDraws, avoidDraws)
          IN  /\ s_Objects' = st.objs
              /\ s_MoveSystem' = st.ms
              /\ s_AvoidanceSystem' = st.as
              /\ created' = st.objs
    /\ pc' = "ready"
    /\ UNCHANGED << deltaTime, io, ia, data, sprite_count, frames, preMove, lastCheck, goLog >>
    /\ UNCHANGED otherVars
    /\ UNCHANGED orderVars

\* application.c frame(): game_update is entered with the frame time dt and
\* runs s_MoveSystem.UpdateSystem
game_update_Move ==
    /\ pc = "ready"
    /\ frames < MaxFrames
    /\ \E dt \in DeltaTimes :
          /\ deltaTime' = dt
          /\ s_Objects' = MoveSystem_UpdateSystem(s_Objects, s_MoveSystem, dt)
    /\ preMove' = s_Objects
    /\ lastCheck' = NoCheck
    /\ goLog' = << >>
    /\ io' = 0
    /\ ia' = 0
    /\ pc' = IF Size(s_AvoidanceSystem.objectList) = 0 \/ Size(s_AvoidanceSystem.avoidList) = 0
             THEN "scan" ELSE "avoid"
    /\ UNCHANGED << s_MoveSystem, s_AvoidanceSystem, data, sprite_count, frames >>
    /\ UNCHANGED otherVars
    /\ UNCHANGED created
    /\ UNCHANGED orderVars

\* one pass of the inner loop of s_AvoidanceSystem.UpdateSystem
game_update_Avoid ==
    /\ pc = "avoid"
    /\ LET no == Size(s_AvoidanceSystem.objectList)
           na == Size(s_AvoidanceSystem.avoidList)
           go    == At(s_Objects, At(s_AvoidanceSystem.objectList, io))
           avoid == At(s_Objects, At(s_AvoidanceSystem.avoidList, ia))
       IN  /\ s_Objects' = AvoidBody(s_Objects, s_AvoidanceSystem, io, ia, deltaTime)
           /\ lastCheck' = [ valid    |-> TRUE,
                             go       |-> At(s_AvoidanceSystem.objectList, io),
                             avoid    |-> At(s_AvoidanceSystem.avoidList, ia),
                             distance |-> At(s_AvoidanceSystem.avoidDistanceList, ia),
                             before   |-> s_Objects ]
           /\ goLog' = Append(IF ia = 0 THEN << >> ELSE goLog,
                               [ avoid  |-> At(s_AvoidanceSystem.avoidList, ia),
                                 before |-> go,
                                 after  |-> At(AvoidBody(s_Objects, s_AvoidanceSystem, io, ia, deltaTime),
                                               At(s_AvoidanceSystem.objectList, io)) ])
           /\ ia' = IF ia + 1 = na THEN 0 ELSE ia + 1
           /\ io' = IF ia + 1 = na THEN io + 1 ELSE io
           /\ pc' = IF ia + 1 = na /\ io + 1 = no THEN "scan" ELSE "avoid"
    /\ UNCHANGED << s_MoveSystem, s_AvoidanceSystem, deltaTime, data, sprite_count, frames, preMove >>
    /\ UNCHANGED otherVars
    /\ UNCHANGED created
    /\ UNCHANGED orderVars

\* the scan of game_update, its return, and the harness' assert on the count
game_update_Scan ==
    /\ pc = "scan"
    /\ LET out == ScanLoop(s_Objects, 0, data, 0)
       IN  /\ data' = out.data
           /\ sprite_count' = out.objectCount
           /\ pc' = IF out.objectCount >= 0 /\ out.objectCount <= kMaxSpriteCount
                    THEN "ready" ELSE "assert"
    /\ frames' = frames + 1
    /\ UNCHANGED << s_Objects, s_MoveSystem, s_AvoidanceSystem, deltaTime, io, ia, preMove,
                    lastCheck, goLog >>
    /\ UNCHANGED otherVars
    /\ UNCHANGED created
    /\ UNCHANGED orderVars

\* application.c cleanup(): game_destroy()
game_destroy ==
    /\ pc = "ready"
    /\ s_Objects' = << >>
    /\ pc' = "destroyed"
    /\ UNCHANGED << s_MoveSystem, s_AvoidanceSystem, deltaTime, io, ia, data, sprite_count,
                    frames, preMove, lastCheck, goLog >>
    /\ UNCHANGED otherVars
    /\ UNCHANGED created
    /\ UNCHANGED orderVars

Next ==
    \/ game_initialize
    \/ game_update_Move
    \/ game_update_Avoid
    \/ game_update_Scan
    \/ game_destroy

Spec == Init /\ [][Next]_vars

-----------------------------------------------------------------------------
(* The harness of application.c linked with the struct-of-arrays variant *)

\* application.c init(): game_initialize()
SoA_game_initialize ==
    /\ pc = "start"
    /\ \E objectDraws \in [1 .. NumObjects -> ObjectDraws] :
       \E avoidDraws \in [1 .. NumAvoid -> AvoidDraws] :
          LET st == SoA_Initialized([objs |-> soa_Objects, ms |-> s_MoveSystem,
                                     as |-> s_AvoidanceSystem], objectDraws, avoidDraws)
          IN  /\ soa_Objects' = st.objs
              /\ s_MoveSystem' = st.ms
              /\ s_AvoidanceSystem' = st.as
    /\ pc' = "ready"
    /\ UNCHANGED << s_Objects, deltaTime, io, ia, data, sprite_count, frames, preMove,
                    lastCheck, goLog, oop_Objects, oop_data, misuse >>
    /\ UNCHANGED created
    /\ UNCHANGED orderVars

\* application.c frame(): one game_update and the harness' assert on the count
SoA_game_update ==
    /\ pc = "ready"
    /\ frames < MaxFrames
    /\ \E dt \in DeltaTimes :
          LET moved   == SoA_MoveSystem_UpdateSystem(soa_Objects, s_MoveSystem, dt)
              avoided == SoA_AvoidanceSystem_UpdateSystem(moved, s_AvoidanceSystem, dt)
              out     == SoA_ScanLoop(avoided, 0, data, 0)
          IN  /\ deltaTime' = dt
              /\ soa_Objects' = avoided
              /\ data' = out.data
              /\ sprite_count' = out.objectCount
              /\ pc' = IF out.objectCount >= 0 /\ out.objectCount <= kMaxSpriteCount
                       THEN "ready" ELSE "assert"
    /\ frames' = frames + 1
    /\ UNCHANGED << s_Objects, s_MoveSystem, s_AvoidanceSystem, io, ia, preMove, lastCheck,
                    goLog, oop_Objects, oop_data, misuse >>
    /\ UNCHANGED created
    /\ UNCHANGED orderVars

\* application.c cleanup(): game_destroy()
SoA_game_destroy ==
    /\ pc = "ready"
    /\ soa_Objects' = SoA_Destroyed(soa_Objects)
    /\ pc' = "destroyed"
    /\ UNCHANGED << s_Objects, s_MoveSystem, s_AvoidanceSystem, deltaTime, io, ia, data,
                    sprite_count, frames, preMove, lastCheck, goLog, oop_Objects, oop_data,
                    misuse >>
    /\ UNCHANGED created
    /\ UNCHANGED orderVars

NextSoA ==
    \/ SoA_game_initialize
    \/ SoA_game_update
    \/ SoA_game_destroy

SpecSoA == Init /\ [][NextSoA]_vars

-----------------------------------------------------------------------------
(* The Entities store of the struct-of-arrays variant on its own: entities
   are added in any number and with any names, and their components are
   written through the ID as game_initialize writes them *)

EntityNames == {"bounds", "object", "toavoid"}

\* EntityID go = s_Objects.AddEntity(name)
Store_AddEntity ==
    /\ Size(soa_Objects.m_Names) < MaxEntities
    /\ \E name \in EntityNames :
          LET added == Entities_AddEntity(soa_Objects, name)
          IN  /\ soa_Objects' = added.e
              /\ io' = added.id
    /\ UNCHANGED << s_Objects, s_MoveSystem, s_AvoidanceSystem, pc, deltaTime, ia, data,
                    sprite_count, frames, preMove, lastCheck, goLog, oop_Objects, oop_data,
                    misuse, created >>
    /\ UNCHANGED orderVars

\* s_Objects.m_Positions[go] = ...; s_Objects.m_Moves[go] = ...;
\* s_Objects.m_Flags[go] |= kFlagPosition, kFlagMove
Store_WriteComponents ==
    /\ \E go \in 0 .. Size(soa_Objects.m_Names) - 1 :
       \E d \in ObjectDraws :
          soa_Objects' = [soa_Objects EXCEPT
                             !.m_Positions = SetAt(@, go, d.pos),
                             !.m_Moves     = SetAt(@, go, d.move),
                             !.m_Flags     = SetAt(@, go,
                                 OrFlag(OrFlag(At(@, go), kFlagPosition), kFlagMove))]
    /\ UNCHANGED << s_Objects, s_MoveSystem, s_AvoidanceSystem, pc, deltaTime, io, ia, data,
                    sprite_count, frames, preMove, lastCheck, goLog, oop_Objects, oop_data,
                    misuse, created >>
    /\ UNCHANGED orderVars

NextStore ==
    \/ Store_AddEntity
    \/ Store_WriteComponents

SpecStore == Init /\ [][NextStore]_vars

-----------------------------------------------------------------------------
(* Callers of game.cpp that break the call contract: each run of SpecMisuse
   makes at most one of the four violations, and otherwise goes on as the
   harness does *)

\* the violation `kind`, committed when `frames` game_update calls had returned
Misuse(kind, capacity) == [kind |-> kind, at |-> frames, capacity |-> capacity]

\* Contents an uninitialised WorldBoundsComponent can have.
IndeterminateBounds ==
    { WorldBoundsComponent(0, 0, 0, 0),
      WorldBoundsComponent(Pos(3000), Pos(-3000), Pos(-90000), Pos(90000)) }

\* game_update is called before game_initialize.  s_Objects, entities,
\* objectList and avoidList are empty and boundsID is 0: the MoveSystem binds
\* a reference to s_Objects[0] of an empty vector, which is undefined (a
\* standard library that checks operator[] stops the program there, any other
\* goes on, since no loop makes a pass and nothing is read through the
\* reference); the scan then writes no record and game_update returns 0.
Misuse_UpdateBeforeInitialize ==
    /\ pc = "start"
    /\ misuse = NoMisuse
    /\ frames < MaxFrames
    /\ \E dt \in DeltaTimes :
          LET moved   == MoveSystem_UpdateSystem(s_Objects, s_MoveSystem, dt)
              avoided == AvoidanceSystem_UpdateSystem(moved, s_AvoidanceSystem, dt)
              out     == ScanLoop(avoided, 0, data, 0)
          IN  /\ deltaTime' = dt
              /\ \/ /\ pc' = "fault"
                    /\ UNCHANGED << s_Objects, data, sprite_count, frames >>
                 \/ /\ s_Objects' = avoided
                    /\ data' = out.data
                    /\ sprite_count' = out.objectCount
                    /\ frames' = frames + 1
                    /\ pc' = IF out.objectCount >= 0 /\ out.objectCount <= kMaxSpriteCount
                             THEN "start" ELSE "assert"
    /\ misuse' = Misuse("update before initialize", kMaxSpriteCount)
    /\ UNCHANGED << s_MoveSystem, s_AvoidanceSystem, io, ia, preMove, lastCheck, goLog,
                    soa_Objects, oop_Objects, oop_data >>
    /\ UNCHANGED created
    /\ UNCHANGED orderVars

\* an entity that is registered as a moving entity is registered again
Misuse_RegisterTwice ==
    /\ pc = "ready"
    /\ misuse = NoMisuse
    /\ frames < MaxFrames
    /\ \E k \in 1 .. Len(s_MoveSystem.entities) :
          s_MoveSystem' = MoveSystem_AddObjectToSystem(s_MoveSystem, s_MoveSystem.entities[k])
    /\ misuse' = Misuse("registered twice", kMaxSpriteCount)
    /\ UNCHANGED << s_Objects, s_AvoidanceSystem, pc, deltaTime, io, ia, data, sprite_count,
                    frames, preMove, lastCheck, goLog, soa_Objects, oop_Objects, oop_data >>
    /\ UNCHANGED created
    /\ UNCHANGED orderVars

\* the scene is set up as game_initialize does, but without the bounds
\* object and without SetBounds: boundsID is still 0, and the m_WorldBounds
\* of object 0, which the MoveSystem will read, was never written
Misuse_InitializeWithoutBounds ==
    /\ pc = "start"
    /\ misuse = NoMisuse
    /\ \E objectDraws \in [1 .. NumObjects -> ObjectDraws] :
       \E avoidDraws \in [1 .. NumAvoid -> AvoidDraws] :
       \E unwritten \in IndeterminateBounds :
          LET st == CreateAvoids(
                        CreateObjects([objs |-> s_Objects, ms |-> s_MoveSystem,
                                       as |-> s_AvoidanceSystem], objectDraws, 1),
                        avoidDraws, 1)
          IN  /\ s_Objects' = SetAt(st.objs, st.ms.boundsID,
                                    [At(st.objs, st.ms.boundsID) EXCEPT !.m_WorldBounds = unwritten])
              /\ s_MoveSystem' = st.ms
              /\ s_AvoidanceSystem' = st.as
    /\ pc' = "ready"
    /\ misuse' = Misuse("no bounds entity", kMaxSpriteCount)
    /\ UNCHANGED << deltaTime, io, ia, data, sprite_count, frames, preMove, lastCheck, goLog,
                    soa_Objects, oop_Objects, oop_data >>
    /\ UNCHANGED created
    /\ UNCHANGED orderVars

\* the buffer handed to game_update has room for fewer records than there
\* are entities to draw
Misuse_SmallBuffer ==
    /\ pc = "ready"
    /\ misuse = NoMisuse
    /\ frames < MaxFrames
    /\ \E capacity \in {0, Cardinality({id \in 0 .. Size(s_Objects) - 1 : IsDrawn(At(s_Objects, id))}) - 1} :
          /\ capacity >= 0
          /\ misuse' = Misuse("small buffer", capacity)
          /\ data' = [k \in {j \in DOMAIN data : j < capacity} |-> data[k]]
    /\ UNCHANGED << s_Objects, s_MoveSystem, s_AvoidanceSystem, pc, deltaTime, io, ia,
                    sprite_count, frames, preMove, lastCheck, goLog, soa_Objects, oop_Objects,
                    oop_data >>
    /\ UNCHANGED created
    /\ UNCHANGED orderVars

\* the scan of game_update for a buffer of misuse.capacity records, its
\* return, and the harness' assert on the count.  A write of data[k] with
\* k >= capacity is a write past the end of the allocation, which is
\* undefined: the program goes on with other memory overwritten, or stops.
Misuse_game_update_Scan ==
    /\ pc = "scan"
    /\ LET out == ScanLoop(s_Objects, 0, data, 0)
       IN  /\ data' = [k \in {j \in DOMAIN out.data : j < misuse.capacity} |-> out.data[k]]
           /\ sprite_count' = out.objectCount
           /\ \/ pc' = IF out.objectCount >= 0 /\ out.objectCount <= kMaxSpriteCount
                        THEN "ready" ELSE "assert"
              \/ /\ out.objectCount > misuse.capacity
                 /\ pc' = "fault"
    /\ frames' = frames + 1
    /\ UNCHANGED << s_Objects, s_MoveSystem, s_AvoidanceSystem, deltaTime, io, ia, preMove,
                    lastCheck, goLog, soa_Objects, oop_Objects, oop_data, misuse >>
    /\ UNCHANGED created
    /\ UNCHANGED orderVars

NextMisuse ==
    \/ game_initialize
    \/ game_update_Move
    \/ game_update_Avoid
    \/ Misuse_game_update_Scan
    \/ game_destroy
    \/ Misuse_UpdateBeforeInitialize
    \/ Misuse_RegisterTwice
    \/ Misuse_InitializeWithoutBounds
    \/ Misuse_SmallBuffer

SpecMisuse == Init /\ [][NextMisuse]_vars

-----------------------------------------------------------------------------
(* game.cpp with the passes of one of its two system loops made in any order:
   under SpecMoveAnyOrder the passes of the MoveSystem loop in any order, and
   under SpecAvoidAnyOrder the passes over avoidList of different avoiders
   interleaved in any way, each avoider's own passes staying in the order of
   avoidList *)

NoProgress(as) == [ tested  |-> [k \in 1 .. Size(as.objectList) |-> 0],
                    inOrder |-> TRUE ]

\* game_update is entered with the frame time dt
AnyOrder_game_update_Begin ==
    /\ pc = "ready"
    /\ frames < OrderFrames
    /\ \E dt \in DeltaTimes : deltaTime' = dt
    /\ preMove' = s_Objects
    /\ visited' = [ passes |-> {}, inOrder |-> TRUE ]
    /\ progress' = NoProgress(s_AvoidanceSystem)
    /\ lastCheck' = NoCheck
    /\ goLog' = << >>
    /\ pc' = "moving"
    /\ UNCHANGED << s_Objects, s_MoveSystem, s_AvoidanceSystem, io, ia, data, sprite_count,
                    frames, created >>
    /\ UNCHANGED otherVars

\* one pass of the loop of s_MoveSystem.UpdateSystem, any of those not yet made
AnyOrder_MovePass ==
    /\ pc = "moving"
    /\ \E i \in (0 .. Size(s_MoveSystem.entities) - 1) \ visited.passes :
          /\ s_Objects' = MoveStep(s_Objects, s_MoveSystem, deltaTime, i)
          /\ visited' = [ passes  |-> visited.passes \cup {i},
                          inOrder |-> visited.inOrder /\ i = Cardinality(visited.passes) ]
          /\ pc' = IF Cardinality(visited.passes) + 1 = Size(s_MoveSystem.entities)
                   THEN "avoiding" ELSE "moving"
    /\ UNCHANGED << s_MoveSystem, s_AvoidanceSystem, deltaTime, io, ia, data, sprite_count,
                    frames, preMove, lastCheck, goLog, created, progress >>
    /\ UNCHANGED otherVars

\* one pass of the inner loop of s_AvoidanceSystem.UpdateSystem, for any
\* avoider that has not tested every target yet, on its next target
AnyOrder_AvoidPass ==
    /\ pc = "avoiding"
    /\ LET na == Size(s_AvoidanceSystem.avoidList)
           unfinished == { i \in 0 .. Size(s_AvoidanceSystem.objectList) - 1 :
                              At(progress.tested, i) < na }
       IN  \E i \in unfinished :
              LET tested == SetAt(progress.tested, i, At(progress.tested, i) + 1)
              IN  /\ s_Objects' = AvoidBody(s_Objects, s_AvoidanceSystem, i,
                                            At(progress.tested, i), deltaTime)
                  /\ progress' = [ tested  |-> tested,
                                   inOrder |-> progress.inOrder
                                               /\ \A j \in unfinished : i <= j ]
                  /\ pc' = IF \A k \in 1 .. Len(tested) : tested[k] = na
                           THEN "scan" ELSE "avoiding"
    /\ UNCHANGED << s_MoveSystem, s_AvoidanceSystem, deltaTime, io, ia, data, sprite_count,
                    frames, preMove, lastCheck, goLog, created, visited >>
    /\ UNCHANGED otherVars

\* s_MoveSystem.UpdateSystem, its passes made in the order of the loop
InOrder_Move ==
    /\ pc = "moving"
    /\ visited.passes = {}
    /\ s_Objects' = MoveSystem_UpdateSystem(s_Objects, s_MoveSystem, deltaTime)
    /\ visited' = [ passes |-> 0 .. Size(s_MoveSystem.entities) - 1, inOrder |-> TRUE ]
    /\ pc' = "avoiding"
    /\ UNCHANGED << s_MoveSystem, s_AvoidanceSystem, deltaTime, io, ia, data, sprite_count,
                    frames, preMove, lastCheck, goLog, created, progress >>
    /\ UNCHANGED otherVars

\* s_AvoidanceSystem.UpdateSystem, its passes made in the order of the loops
InOrder_Avoid ==
    /\ pc = "avoiding"
    /\ s_Objects' = AvoidanceSystem_UpdateSystem(s_Objects, s_AvoidanceSystem, deltaTime)
    /\ pc' = "scan"
    /\ UNCHANGED << s_MoveSystem, s_AvoidanceSystem, deltaTime, io, ia, data, sprite_count,
                    frames, preMove, lastCheck, goLog, created, visited, progress >>
    /\ UNCHANGED otherVars

NextMoveAnyOrder ==
    \/ game_initialize
    \/ AnyOrder_game_update_Begin
    \/ AnyOrder_MovePass
    \/ InOrder_Avoid
    \/ game_update_Scan

SpecMoveAnyOrder == Init /\ [][NextMoveAnyOrder]_vars

NextAvoidAnyOrder ==
    \/ game_initialize
    \/ AnyOrder_game_update_Begin
    \/ InOrder_Move
    \/ AnyOrder_AvoidPass
    \/ game_update_Scan

SpecAvoidAnyOrder == Init /\ [][NextAvoidAnyOrder]_vars

-----------------------------------------------------------------------------
(* The per-object variant and the variant of game.cpp, run side by side on
   the same draws and the same frame times *)

\* game_initialize of both
Both_game_initialize ==
    /\ pc = "start"
    /\ \E junk \in Indeterminate :
       \E objectDraws \in [1 .. NumObjects -> ObjectDraws] :
       \E avoidDraws \in [1 .. NumAvoid -> AvoidDraws] :
          LET st == Initialized([objs |-> s_Objects, ms |-> s_MoveSystem, as |-> s_AvoidanceSystem],
                                junk, objectDraws, avoidDraws)
          IN  /\ s_Objects' = st.objs
              /\ s_MoveSystem' = st.ms
              /\ s_AvoidanceSystem' = st.as
              /\ oop_Objects' = PerObject_Initialized(objectDraws, avoidDraws)
              /\ created' = st.objs
    /\ pc' = "ready"
    /\ UNCHANGED << deltaTime, io, ia, data, sprite_count, frames, preMove, lastCheck, goLog,
                    soa_Objects, oop_data, misuse >>
    /\ UNCHANGED orderVars

\* one game_update of both, with the same deltaTime
Both_game_update ==
    /\ pc = "ready"
    /\ frames < MaxFrames
    /\ \E dt \in DeltaTimes :
          LET moved   == MoveSystem_UpdateSystem(s_Objects, s_MoveSystem, dt)
              avoided == AvoidanceSystem_UpdateSystem(moved, s_AvoidanceSystem, dt)
              out     == ScanLoop(avoided, 0, data, 0)
              oop     == PerObject_UpdateLoop(oop_Objects, 0, oop_data, 0, dt)
          IN  /\ deltaTime' = dt
              /\ s_Objects' = avoided
              /\ data' = out.data
              /\ sprite_count' = out.objectCount
              /\ oop_Objects' = oop.objs
              /\ oop_data' = oop.data
              /\ pc' = IF /\ out.objectCount >= 0 /\ out.objectCount <= kMaxSpriteCount
                          /\ oop.objectCount >= 0 /\ oop.objectCount <= kMaxSpriteCount
                       THEN "ready" ELSE "assert"
    /\ preMove' = s_Objects
    /\ frames' = frames + 1
    /\ UNCHANGED << s_MoveSystem, s_AvoidanceSystem, io, ia, lastCheck, goLog, soa_Objects, misuse >>
    /\ UNCHANGED created
    /\ UNCHANGED orderVars

\* game_destroy of both
Both_game_destroy ==
    /\ pc = "ready"
    /\ s_Objects' = << >>
    /\ oop_Objects' = << >>
    /\ pc' = "destroyed"
    /\ UNCHANGED << s_MoveSystem, s_AvoidanceSystem, deltaTime, io, ia, data, sprite_count,
                    frames, preMove, lastCheck, goLog, soa_Objects, oop_data, misuse >>
    /\ UNCHANGED created
    /\ UNCHANGED orderVars

NextBoth ==
    \/ Both_game_initialize
    \/ Both_game_update
    \/ Both_game_destroy

SpecBoth == Init /\ [][NextBoth]_vars

-----------------------------------------------------------------------------
(* Vocabulary of the properties *)

IDs(objs) == 0 .. Size(objs) - 1

\* the MoveSystem update of the running frame has just returned
AfterMove == pc \in {"avoid", "scan"} /\ ~lastCheck.valid

\* a game_update has just returned
AfterUpdate == pc = "ready" /\ frames > 0

\* what one axis must become in one MoveSystem update: <<position, velocity>>
ReflectedAxis(p, v, dt, lo, hi) ==
    LET q == p + VelTimesDt(v, dt)
    IN  IF q < lo THEN << lo, -v >>
        ELSE IF q > hi THEN << hi, -v >>
        ELSE << q, v >>

\* object id moved as one MoveSystem update must move it, from `old` to `new`
MovedByLaw(old, new, bounds, dt) ==
    /\ << new.m_Position.x, new.m_Move.velx >> =
          ReflectedAxis(old.m_Position.x, old.m_Move.velx, dt, bounds.xMin, bounds.xMax)
    /\ << new.m_Position.y, new.m_Move.vely >> =
          ReflectedAxis(old.m_Position.y, old.m_Move.vely, dt, bounds.yMin, bounds.yMax)

TheBounds == At(s_Objects, s_MoveSystem.boundsID).m_WorldBounds

Registered(id) == \E k \in 1 .. Len(s_MoveSystem.entities) : s_MoveSystem.entities[k] = id

\* the objects the MoveSystem loop works on, in the order of its passes
MoveVisits == [k \in 1 .. Size(s_MoveSystem.entities) |-> MoveTarget(s_MoveSystem, k - 1)]

-----------------------------------------------------------------------------
(* C1 *)

\* C1: after one MoveSystem update with step dt, every entity registered
\* through AddObjectToSystem has, on each axis, position = old position +
\* velocity * dt with the velocity unchanged, or, when that value is below
\* the minimum or above the maximum bound, position = that bound and the
\* velocity negated.
C1_RegisteredEntitiesMove ==
    AfterMove =>
        \A k \in 1 .. Len(s_MoveSystem.entities) :
            LET id == s_MoveSystem.entities[k]
            IN  MovedByLaw(At(preMove, id), At(s_Objects, id), TheBounds, deltaTime)

(* C2 *)

\* C2: the entities one MoveSystem update works on are exactly the registered
\* IDs, in registration order, and the Position and Move of every entity that
\* is not registered (the bounds entity) are left as they were.
C2_OnlyRegisteredTouched ==
    AfterMove =>
        /\ MoveVisits = s_MoveSystem.entities
        /\ \A id \in IDs(s_Objects) :
              ~Registered(id) =>
                  /\ At(s_Objects, id).m_Position = At(preMove, id).m_Position
                  /\ At(s_Objects, id).m_Move = At(preMove, id).m_Move

-----------------------------------------------------------------------------
(* C3 *)

HasPositionAndSprite(go) == go.m_HasPosition # 0 /\ go.m_HasSprite # 0

DrawnIDs(objs) == {id \in IDs(objs) : HasPositionAndSprite(At(objs, id))}

\* number of drawn entities with a smaller ID: the place of id in ascending order
Rank(objs, id) == Cardinality({j \in DrawnIDs(objs) : j < id})

FlagsOf(go) == << go.m_HasPosition, go.m_HasSprite, go.m_HasWorldBounds, go.m_HasMove >>

\* C3: the records one game_update writes are those of the entities that have
\* both the Position and the Sprite flag, one record each, in ascending
\* EntityID order; the flags that decide it are those the frame began with, so
\* the order is the same in every frame.
C3_RecordsInAscendingIdOrder ==
    AfterUpdate =>
        /\ sprite_count = Cardinality(DrawnIDs(s_Objects))
        /\ \A id \in DrawnIDs(s_Objects) :
              /\ Rank(s_Objects, id) \in DOMAIN data
              /\ data[Rank(s_Objects, id)] = SpriteData(At(s_Objects, id))
        /\ \A id \in IDs(s_Objects) : FlagsOf(At(s_Objects, id)) = FlagsOf(At(preMove, id))

\* a second frame has written its records, and two neighbouring records differ
\* (their order can be told)
C3_Witness ==
    /\ AfterUpdate
    /\ frames >= 2
    /\ sprite_count >= 2
    /\ \E k \in 0 .. sprite_count - 2 : data[k] # data[k + 1]

(* C4 *)

\* C4: every game_update returns NumObjects + NumAvoid, the number of regular
\* plus avoid-target entities game_initialize created, and the bounds entity
\* never has the Sprite flag.
C4_RecordCount ==
    /\ AfterUpdate => sprite_count = NumObjects + NumAvoid
    /\ pc \in {"ready", "avoid", "scan"} =>
          /\ At(s_Objects, s_MoveSystem.boundsID).m_HasWorldBounds # 0
          /\ At(s_Objects, s_MoveSystem.boundsID).m_HasSprite = 0

C4_Witness ==
    /\ AfterUpdate
    /\ frames >= 2
    /\ Size(s_Objects) = 1 + NumObjects + NumAvoid
    /\ sprite_count = NumObjects + NumAvoid

(* C5 *)

\* C5: game_update writes only the indices 0 .. recordCount-1 of the buffer,
\* a contiguous run from index 0, and recordCount is within 0 .. kMaxSpriteCount
\* (the harness' assert does not fire); the program's own population,
\* kObjectCount + kAvoidCount records, fits the buffer too.
C5_WritesWithinBuffer ==
    /\ pc # "assert"
    /\ DOMAIN data \subseteq 0 .. kMaxSpriteCount - 1
    /\ AfterUpdate =>
          /\ 0 <= sprite_count /\ sprite_count <= kMaxSpriteCount
          /\ DOMAIN data = 0 .. sprite_count - 1
    /\ kObjectCount + kAvoidCount <= kMaxSpriteCount

C5_Witness ==
    /\ AfterUpdate
    /\ sprite_count > 1
    /\ DOMAIN data = 0 .. sprite_count - 1

(* C6 *)

\* C6: every record holds posX = x * 0.05, posY = y * 0.05 and
\* scale = sprite scale * 0.05 (stated exactly: 100 * field = 5 * value, in the
\* units of the fields), and the colour and the sprite index of the entity as
\* they are, the entity's values being those the frame's Move and Avoidance
\* updates left.
C6_RecordValues ==
    AfterUpdate =>
        \A id \in DrawnIDs(s_Objects) :
            LET go  == At(s_Objects, id)
                rec == data[Rank(s_Objects, id)]
            IN  /\ 100 * rec.posX  = 5 * UnitScale * go.m_Position.x
                /\ 100 * rec.posY  = 5 * UnitScale * go.m_Position.y
                /\ 100 * rec.scale = 5 * UnitScale * go.m_Sprite.scale
                /\ rec.colR = go.m_Sprite.colorR
                /\ rec.colG = go.m_Sprite.colorG
                /\ rec.colB = go.m_Sprite.colorB
                /\ rec.sprite = go.m_Sprite.spriteIndex

\* a record of an entity that this frame moved and recoloured
C6_Witness ==
    /\ AfterUpdate
    /\ \E id \in DrawnIDs(s_Objects) :
          /\ At(s_Objects, id).m_Position # At(preMove, id).m_Position
          /\ At(s_Objects, id).m_Position.x # 0
          /\ At(s_Objects, id).m_Sprite.colorR # At(preMove, id).m_Sprite.colorR
          /\ data[Rank(s_Objects, id)].colR = At(s_Objects, id).m_Sprite.colorR

-----------------------------------------------------------------------------
(* C7 *)

\* the position an axis would have without the bound tests
Unclamped(p, v, dt) == p + VelTimesDt(v, dt)

\* One axis of one object after one MoveSystem update: when the unclamped
\* position is outside lo .. hi the axis sits on the bound it crossed and the
\* velocity is the old one negated once; otherwise nothing was clamped or
\* negated.
ClampedOnce(p, v, dt, lo, hi, newP, newV) ==
    LET q == Unclamped(p, v, dt)
    IN  /\ q < lo => newP = lo /\ newV = -v
        /\ q > hi => newP = hi /\ newV = -v
        /\ (q >= lo /\ q <= hi) => newP = q /\ newV = v

\* C7: in one MoveSystem update each axis of an object the update works on is
\* clamped and its velocity negated at most once, however large deltaTime is:
\* an overshoot ends on the single bound crossed with one sign flip (the world
\* bounds having xMin <= xMax and yMin <= yMax).
C7_ReflectOncePerAxis ==
    AfterMove =>
        /\ TheBounds.xMin <= TheBounds.xMax
        /\ TheBounds.yMin <= TheBounds.yMax
        /\ \A k \in 1 .. Len(MoveVisits) :
              LET old == At(preMove, MoveVisits[k])
                  new == At(s_Objects, MoveVisits[k])
              IN  /\ ClampedOnce(old.m_Position.x, old.m_Move.velx, deltaTime,
                                 TheBounds.xMin, TheBounds.xMax,
                                 new.m_Position.x, new.m_Move.velx)
                  /\ ClampedOnce(old.m_Position.y, old.m_Move.vely, deltaTime,
                                 TheBounds.yMin, TheBounds.yMax,
                                 new.m_Position.y, new.m_Move.vely)

\* an object whose unclamped x is beyond xMax by more than the width of the
\* world (a true reflection would have bounced off xMin as well), left on xMax
\* with its velocity negated
C7_Witness ==
    /\ AfterMove
    /\ \E k \in 1 .. Len(MoveVisits) :
          LET old == At(preMove, MoveVisits[k])
              new == At(s_Objects, MoveVisits[k])
          IN  /\ old.m_Move.velx # 0
              /\ Unclamped(old.m_Position.x, old.m_Move.velx, deltaTime)
                    > TheBounds.xMax + (TheBounds.xMax - TheBounds.xMin)
              /\ new.m_Position.x = TheBounds.xMax
              /\ new.m_Move.velx = -old.m_Move.velx

-----------------------------------------------------------------------------
(* C8, C9, C10: one avoider/target test *)

\* an avoider/target test of the running AvoidanceSystem update has just been made
JustChecked == lastCheck.valid /\ pc \in {"avoid", "scan"}

\* the avoider and the target of the last test, before and after it
CheckedGoBefore == At(lastCheck.before, lastCheck.go)
CheckedGoAfter == At(s_Objects, lastCheck.go)
CheckedAvoidBefore == At(lastCheck.before, lastCheck.avoid)

\* squared distance of the two at the test, and the trigger distance squared
CheckedDistanceSq == DistanceSq(CheckedGoBefore.m_Position, CheckedAvoidBefore.m_Position)
CheckedTriggerSq == lastCheck.distance * lastCheck.distance

\* C8: an avoider triggers against a target exactly when the squared distance
\* of their positions is strictly less than the target's trigger distance
\* squared; otherwise (at equal squared distance too) the test changes nothing.
C8_StrictThreshold ==
    JustChecked =>
        /\ CheckedDistanceSq < CheckedTriggerSq =>
              CheckedGoAfter.m_Move = MoveComponent(-CheckedGoBefore.m_Move.velx,
                                                    -CheckedGoBefore.m_Move.vely)
        /\ CheckedDistanceSq >= CheckedTriggerSq => s_Objects = lastCheck.before

\* a test at squared distance exactly the trigger distance squared, of a moving
\* avoider, that changed nothing
C8_Witness ==
    /\ JustChecked
    /\ CheckedDistanceSq = CheckedTriggerSq
    /\ CheckedGoBefore.m_Move # MoveComponent(0, 0)
    /\ s_Objects = lastCheck.before

\* the scene of the worked example: avoider 0 at (0,0) with velocity (1,0),
\* target 1 at (0.5,0) with trigger distance 1.0
ExampleScene ==
    << [GameObject("object", ZeroJunk) EXCEPT !.m_Move = MoveComponent(VelScale, 0)],
       [GameObject("toavoid", ZeroJunk) EXCEPT !.m_Position = PositionComponent(Pos(500), 0),
                                               !.m_Sprite.colorR = 50] >>

ExampleSystem ==
    [avoidDistanceList |-> << Pos(1000) >>, avoidList |-> << 1 >>, objectList |-> << 0 >>]

\* C9: collision resolution on an avoider with velocity v and position p at
\* step dt leaves the velocity -v on both axes and the position
\* p + (-v) * dt * 1.1 (stated exactly, in the units of the fields); in the
\* worked example, with dt = 0.1, the avoider ends with velocity (-1,0) at
\* (-0.11,0).
C9_CollisionResolution ==
    /\ (JustChecked /\ CheckedDistanceSq < CheckedTriggerSq) =>
          LET p == CheckedGoBefore.m_Position
              v == CheckedGoBefore.m_Move
              q == CheckedGoAfter.m_Position
              w == CheckedGoAfter.m_Move
          IN  /\ w.velx = -v.velx
              /\ w.vely = -v.vely
              /\ (q.x - p.x) * VelScale * DtScale * 10 = (-v.velx) * deltaTime * 11 * PosScale
              /\ (q.y - p.y) * VelScale * DtScale * 10 = (-v.vely) * deltaTime * 11 * PosScale
    /\ LET go == At(AvoidBody(ExampleScene, ExampleSystem, 0, 0, DtScale \div 10), 0)
       IN  /\ go.m_Move = MoveComponent(-VelScale, 0)
           /\ go.m_Position = PositionComponent(Pos(-110), 0)

\* a triggered test of an avoider moving on both axes
C9_Witness ==
    /\ JustChecked
    /\ CheckedDistanceSq < CheckedTriggerSq
    /\ CheckedGoBefore.m_Move.velx # 0
    /\ CheckedGoBefore.m_Move.vely # 0
    /\ CheckedGoAfter.m_Position # CheckedGoBefore.m_Position

ColorOf(go) == << go.m_Sprite.colorR, go.m_Sprite.colorG, go.m_Sprite.colorB >>

\* C10: right after an avoider triggers against a target its colour (R,G,B) is
\* the colour the target had at the test, whatever its own colour was, and its
\* sprite index and scale are as before.
C10_ColorOverwrite ==
    (JustChecked /\ CheckedDistanceSq < CheckedTriggerSq) =>
        /\ ColorOf(CheckedGoAfter) = ColorOf(CheckedAvoidBefore)
        /\ CheckedGoAfter.m_Sprite.spriteIndex = CheckedGoBefore.m_Sprite.spriteIndex
        /\ CheckedGoAfter.m_Sprite.scale = CheckedGoBefore.m_Sprite.scale

\* a trigger of an avoider that was no longer white, against a target of yet
\* another colour
C10_Witness ==
    /\ JustChecked
    /\ CheckedDistanceSq < CheckedTriggerSq
    /\ ColorOf(CheckedGoBefore) # << ColorScale, ColorScale, ColorScale >>
    /\ ColorOf(CheckedGoBefore) # ColorOf(CheckedAvoidBefore)
    /\ ColorOf(CheckedGoAfter) = ColorOf(CheckedAvoidBefore)

-----------------------------------------------------------------------------
(* Several targets in range of one avoider *)

\* the running avoider has been tested against every target of avoidList
LoopDone == JustChecked /\ Len(goLog) = Size(s_AvoidanceSystem.avoidList)

\* the avoider's position when its pass over avoidList began
LoopStartPosition == goLog[1].before.m_Position

\* the trigger distance registered with entry number k (1-based) of the log
LoggedDistance(k) == At(s_AvoidanceSystem.avoidDistanceList, k - 1)

\* entries of the log whose target was within range of the avoider's position
\* at the start of the pass (targets are not written by the Avoidance update)
InRangeAtStart ==
    { k \in 1 .. Len(goLog) :
        DistanceSq(LoopStartPosition, At(lastCheck.before, goLog[k].avoid).m_Position)
            < Square(LoggedDistance(k)) }

\* entries of the log whose test changed the avoider: the tests that triggered
Hits == { k \in 1 .. Len(goLog) : goLog[k].after # goLog[k].before }

SetMin(S) == CHOOSE k \in S : \A j \in S : k <= j

SetMax(S) == CHOOSE k \in S : \A j \in S : k >= j

\* C11 as stated: with two targets both within trigger range of an avoider at
\* the start of its target loop, both trigger in this Avoidance update, and the
\* avoider ends with the colour of the later of the two in registration order.
C11_BothInRangeBothTrigger ==
    (LoopDone /\ Cardinality(InRangeAtStart) = 2) =>
        /\ InRangeAtStart \subseteq Hits
        /\ ColorOf(CheckedGoAfter)
             = ColorOf(At(s_Objects, goLog[SetMax(InRangeAtStart)].avoid))

\* C11 (amended): with two targets both within trigger range of an avoider at the
\* start of its target loop, the tests are made in registration order, each on
\* the avoider as the previous test left it; the first of the two triggers; the
\* second triggers exactly when it is still within range of the avoider's
\* position at the time of its own test; and the avoider ends with the colour
\* of the target that triggered last.
C11_TriggersInSequence ==
    (LoopDone /\ Cardinality(InRangeAtStart) = 2) =>
        LET first  == SetMin(InRangeAtStart)
            second == SetMax(InRangeAtStart)
        IN  /\ \A k \in 1 .. Len(goLog) :
                  goLog[k].avoid = At(s_AvoidanceSystem.avoidList, k - 1)
            /\ \A k \in 1 .. Len(goLog) - 1 : goLog[k + 1].before = goLog[k].after
            /\ goLog[Len(goLog)].after = CheckedGoAfter
            /\ first \in Hits
            /\ (second \in Hits) <=>
                  (DistanceSq(goLog[second].before.m_Position,
                              At(s_Objects, goLog[second].avoid).m_Position)
                      < Square(LoggedDistance(second)))
            /\ ColorOf(CheckedGoAfter) = ColorOf(At(s_Objects, goLog[SetMax(Hits)].avoid))

\* both of two differently coloured targets trigger for one avoider, and it
\* ends with the colour of the second
C11_Witness ==
    /\ LoopDone
    /\ Cardinality(InRangeAtStart) = 2
    /\ InRangeAtStart \subseteq Hits
    /\ ColorOf(At(s_Objects, goLog[SetMin(InRangeAtStart)].avoid))
         # ColorOf(At(s_Objects, goLog[SetMax(InRangeAtStart)].avoid))
    /\ ColorOf(CheckedGoAfter) = ColorOf(At(s_Objects, goLog[SetMax(InRangeAtStart)].avoid))

\* the first trigger carries the avoider out of range of the second target
C11_SecondEscapes ==
    /\ LoopDone
    /\ Cardinality(InRangeAtStart) = 2
    /\ SetMin(InRangeAtStart) \in Hits
    /\ SetMax(InRangeAtStart) \notin Hits

-----------------------------------------------------------------------------
(* What one Avoidance update writes *)

\* the AvoidanceSystem update of the running frame has begun
InAvoidance == pc \in {"avoid", "scan"}

\* the scene as the running frame's AvoidanceSystem update found it: what the
\* MoveSystem update made of the scene the frame started with
AvoidanceStart == MoveSystem_UpdateSystem(preMove, s_MoveSystem, deltaTime)

InSeq(id, list) == \E k \in 1 .. Len(list) : list[k] = id

IsAvoidTarget(id) == InSeq(id, s_AvoidanceSystem.avoidList)

IsAvoider(id) == InSeq(id, s_AvoidanceSystem.objectList)

\* C12: at every point of an Avoidance update, and when it has finished, every
\* registered avoid-target has the position, velocity and sprite it had when
\* the update began, and every entity that differs from what it was then is a
\* registered avoider.
C12_OnlyAvoidersWritten ==
    InAvoidance =>
        LET start == AvoidanceStart
        IN  /\ Size(s_Objects) = Size(start)
            /\ \A id \in IDs(s_Objects) :
                  /\ IsAvoidTarget(id) =>
                        /\ At(s_Objects, id).m_Position = At(start, id).m_Position
                        /\ At(s_Objects, id).m_Move = At(start, id).m_Move
                        /\ At(s_Objects, id).m_Sprite = At(start, id).m_Sprite
                  /\ At(s_Objects, id) # At(start, id) => IsAvoider(id)

\* an Avoidance update has finished in which a target triggered, and it has
\* changed the avoider's position, velocity and colour
C12_Witness ==
    /\ pc = "scan"
    /\ lastCheck.valid
    /\ \E id \in IDs(s_Objects) :
          /\ IsAvoider(id)
          /\ At(s_Objects, id).m_Position # At(AvoidanceStart, id).m_Position
          /\ At(s_Objects, id).m_Move # At(AvoidanceStart, id).m_Move
          /\ At(s_Objects, id).m_Sprite # At(AvoidanceStart, id).m_Sprite
    /\ \A id \in IDs(s_Objects) :
          IsAvoidTarget(id) => At(s_Objects, id) = At(AvoidanceStart, id)

-----------------------------------------------------------------------------
(* Order of the three parts of game_update *)

\* every avoider has been tested against every target
AvoidanceFinished ==
    \/ Size(s_AvoidanceSystem.objectList) = 0
    \/ Size(s_AvoidanceSystem.avoidList) = 0
    \/ /\ LoopDone
       /\ lastCheck.go = At(s_AvoidanceSystem.objectList, Size(s_AvoidanceSystem.objectList) - 1)
       /\ io = Size(s_AvoidanceSystem.objectList)

\* C13: in every game_update the distance tests come after the move of every
\* entity: each test reads the target at the position this frame's move gives
\* it (its position at the start of the frame advanced by velocity * dt and
\* reflected at the bounds), the first test of an avoider reads the avoider at
\* the position this frame's move gives it, and the scan starts only when the
\* Avoidance update has finished.
C13_TestsUsePostMovePositions ==
    /\ JustChecked =>
          /\ MovedByLaw(At(preMove, lastCheck.avoid), CheckedAvoidBefore,
                        TheBounds, deltaTime)
          /\ Len(goLog) = 1 =>
                MovedByLaw(At(preMove, lastCheck.go), CheckedGoBefore, TheBounds, deltaTime)
    /\ pc = "scan" => AvoidanceFinished

-----------------------------------------------------------------------------
(* The entities and the registration lists between game_initialize and game_destroy *)

\* game_initialize has returned and game_destroy has not been called
Live == pc \in {"ready", "avoid", "scan"}

\* the names of the entities in store order
NamesOf(objs) == [k \in 1 .. Len(objs) |-> objs[k].m_Name]

\* the names game_initialize gives to IDs 0, 1 .. N, N+1 .. N+K
NamesAsCreated ==
    [k \in 1 .. 1 + NumObjects + NumAvoid |->
        IF k = 1 THEN "bounds" ELSE IF k <= 1 + NumObjects THEN "object" ELSE "toavoid"]

\* C14: after game_initialize the store holds exactly 1 + N + K entities (the
\* bounds entity, N regular entities, K avoid-targets, in this order of IDs),
\* and at every point of every later game_update the store still holds these
\* entities under these IDs and the registration lists of both systems are
\* what game_initialize made them.
C14_EntitiesAndListsFixed ==
    Live =>
        /\ Size(s_Objects) = 1 + NumObjects + NumAvoid
        /\ NamesOf(s_Objects) = NamesAsCreated
        /\ s_MoveSystem.boundsID = 0
        /\ s_MoveSystem.entities = [k \in 1 .. NumObjects + NumAvoid |-> k]
        /\ s_AvoidanceSystem.objectList = [k \in 1 .. NumObjects |-> k]
        /\ s_AvoidanceSystem.avoidList = [k \in 1 .. NumAvoid |-> NumObjects + k]
        /\ s_AvoidanceSystem.avoidDistanceList = [k \in 1 .. NumAvoid |-> avoidDistanceInit]

\* two game_update calls have returned, the last of which changed the scene,
\* and the store still holds 1 + N + K entities
C14_Witness ==
    /\ AfterUpdate
    /\ frames >= 2
    /\ s_Objects # preMove
    /\ Size(s_Objects) = 1 + NumObjects + NumAvoid
    /\ Size(s_MoveSystem.entities) = NumObjects + NumAvoid

-----------------------------------------------------------------------------
(* The bounds entity *)

\* the IDs of the entities that carry the WorldBounds flag
WithWorldBounds(objs) == { id \in IDs(objs) : At(objs, id).m_HasWorldBounds # 0 }

\* C15: after game_initialize, and at every point of any number of
\* game_update calls, exactly one entity has the WorldBounds flag, and
\* MoveSystem.boundsID is the ID of that entity.
C15_OneBoundsEntity ==
    Live => WithWorldBounds(s_Objects) = {s_MoveSystem.boundsID}

\* two game_update calls have returned, the MoveSystem has written to the
\* entity that carries the WorldBounds flag, and it is still the only one
C15_Witness ==
    /\ AfterUpdate
    /\ frames >= 2
    /\ Cardinality(WithWorldBounds(s_Objects)) = 1
    /\ \E id \in WithWorldBounds(s_Objects) :
          /\ id = s_MoveSystem.boundsID
          /\ At(s_Objects, id).m_Position # At(preMove, id).m_Position

-----------------------------------------------------------------------------
(* What game_update leaves alone *)

\* the running frame has begun, or the last frame has just returned: preMove
\* is the scene this frame started with
FrameBegun == InAvoidance \/ AfterUpdate

\* C16: at every point of a game_update and when it has returned, compared
\* with the scene at its start: the WorldBounds values of the bounds entity,
\* the sprite index and sprite scale of every entity and the four presence
\* flags of every entity are unchanged, and so is the sprite colour of every
\* entity that is not a registered avoider.
C16_FrameLeavesUnchanged ==
    FrameBegun =>
        /\ Size(s_Objects) = Size(preMove)
        /\ \A id \in IDs(s_Objects) :
              LET new == At(s_Objects, id)
                  old == At(preMove, id)
              IN  /\ new.m_WorldBounds = old.m_WorldBounds
                  /\ new.m_Sprite.spriteIndex = old.m_Sprite.spriteIndex
                  /\ new.m_Sprite.scale = old.m_Sprite.scale
                  /\ FlagsOf(new) = FlagsOf(old)
                  /\ ~IsAvoider(id) => ColorOf(new) = ColorOf(old)

\* a game_update has returned that moved entities and recoloured an avoider;
\* the bounds entity still has the bounds game_initialize gave it
C16_Witness ==
    /\ AfterUpdate
    /\ \E id \in IDs(s_Objects) :
          /\ IsAvoider(id)
          /\ ColorOf(At(s_Objects, id)) # ColorOf(At(preMove, id))
          /\ At(s_Objects, id).m_Sprite.spriteIndex = At(preMove, id).m_Sprite.spriteIndex
    /\ \E id \in IDs(s_Objects) :
          /\ IsAvoidTarget(id)
          /\ At(s_Objects, id).m_Position # At(preMove, id).m_Position
    /\ TheBounds = WorldBoundsComponent(xMinInit, xMaxInit, yMinInit, yMaxInit)

-----------------------------------------------------------------------------
(* What game_initialize registers *)

NoDuplicates(list) == \A j, k \in 1 .. Len(list) : list[j] = list[k] => j = k

\* every ID of `list` is the index of a stored entity named `name`
PointsAt(list, name) ==
    \A k \in 1 .. Len(list) :
        /\ list[k] \in IDs(s_Objects)
        /\ At(s_Objects, list[k]).m_Name = name

\* C17: after game_initialize, every regular entity's ID is in the MoveSystem
\* list and in the avoider list; every avoid-target's ID is in the MoveSystem
\* list and in the target list, with trigger distance 1.3 at the same place of
\* the distance list; every registered ID is the index at which an entity of
\* the registered kind is stored; no ID occurs twice in a list; and no entity
\* is both avoider and target.
C17_Registration ==
    Live =>
        /\ \A id \in IDs(s_Objects) :
              /\ At(s_Objects, id).m_Name = "object" => Registered(id) /\ IsAvoider(id)
              /\ At(s_Objects, id).m_Name = "toavoid" =>
                    /\ Registered(id)
                    /\ \E k \in 1 .. Len(s_AvoidanceSystem.avoidList) :
                          /\ s_AvoidanceSystem.avoidList[k] = id
                          /\ k \in DOMAIN s_AvoidanceSystem.avoidDistanceList
                          /\ s_AvoidanceSystem.avoidDistanceList[k] = Pos(1300)
        /\ PointsAt(s_AvoidanceSystem.objectList, "object")
        /\ PointsAt(s_AvoidanceSystem.avoidList, "toavoid")
        /\ \A k \in 1 .. Len(s_MoveSystem.entities) :
              /\ s_MoveSystem.entities[k] \in IDs(s_Objects)
              /\ At(s_Objects, s_MoveSystem.entities[k]).m_Name \in {"object", "toavoid"}
              /\ At(s_Objects, s_MoveSystem.entities[k]).m_HasMove # 0
        /\ Len(s_AvoidanceSystem.avoidDistanceList) = Len(s_AvoidanceSystem.avoidList)
        /\ NoDuplicates(s_MoveSystem.entities)
        /\ NoDuplicates(s_AvoidanceSystem.objectList)
        /\ NoDuplicates(s_AvoidanceSystem.avoidList)
        /\ ~ \E id \in IDs(s_Objects) : IsAvoider(id) /\ IsAvoidTarget(id)

\* game_initialize has just returned, with regular entities and avoid-targets
\* created and registered
C17_Witness ==
    /\ pc = "ready"
    /\ frames = 0
    /\ \E id \in IDs(s_Objects) : At(s_Objects, id).m_Name = "object" /\ IsAvoider(id)
    /\ \E id \in IDs(s_Objects) : At(s_Objects, id).m_Name = "toavoid" /\ IsAvoidTarget(id)
    /\ Size(s_MoveSystem.entities) = NumObjects + NumAvoid

-----------------------------------------------------------------------------
(* game_destroy *)

\* C18: after game_destroy has returned the entity store contains no
\* entities, in the variant of game.cpp (a vector of GameObject) and in the
\* struct-of-arrays variant (the six parallel vectors of Entities).
C18_StoreEmptyAfterDestroy ==
    pc = "destroyed" =>
        /\ Size(s_Objects) = 0
        /\ Size(soa_Objects.m_Names) = 0
        /\ Size(soa_Objects.m_Positions) = 0
        /\ Size(soa_Objects.m_Sprites) = 0
        /\ Size(soa_Objects.m_WorldBounds) = 0
        /\ Size(soa_Objects.m_Moves) = 0
        /\ Size(soa_Objects.m_Flags) = 0

-----------------------------------------------------------------------------
(* The per-object variant against the system variant *)

\* C20: started from the same entity state and driven with the same
\* deltaTime sequence, the per-object variant and the system variant of
\* game.cpp write the same render records in every frame.
C20_SameRenderRecords ==
    AfterUpdate => data = oop_data

-----------------------------------------------------------------------------
(* Contract violations *)

\* a game_update has returned to its caller since the violation was committed
UpdateReturnedAfterMisuse ==
    /\ misuse.kind # "none"
    /\ frames > misuse.at
    /\ pc \in {"start", "ready", "destroyed"}

\* C19: once the caller has committed one of the listed contract violations
\* (game_update before game_initialize, an entity registered twice as a moving
\* entity, no bounds entity, a buffer smaller than the number of records), no
\* game_update returns normally: the next one ends in an assertion or
\* precondition failure.
C19_ViolationsEndInFailure == ~UpdateReturnedAfterMisuse

-----------------------------------------------------------------------------
(* C21, C22: the order of the passes *)

\* every pass of the MoveSystem loop of the running frame has been made, and
\* no pass of the Avoidance loops yet
MoveFinished == pc = "avoiding" /\ \A k \in 1 .. Len(progress.tested) : progress.tested[k] = 0

\* C21: whatever the order in which the passes of one MoveSystem update are
\* made, when all of them have been made every entity has the position and
\* velocity (and everything else) that the update gives it when it makes the
\* passes in the order of the loop.
C21_MoveOrderIrrelevant ==
    MoveFinished => s_Objects = MoveSystem_UpdateSystem(preMove, s_MoveSystem, deltaTime)

\* the passes were made in another order than the loop's, two of them at least
\* reflected their object at a bound, and one just moved it
C21_Witness ==
    /\ MoveFinished
    /\ ~visited.inOrder
    /\ Cardinality({ id \in IDs(s_Objects) :
                       At(s_Objects, id).m_Move # At(preMove, id).m_Move }) >= 2
    /\ \E id \in IDs(s_Objects) :
          /\ At(s_Objects, id).m_Move = At(preMove, id).m_Move
          /\ At(s_Objects, id).m_Position # At(preMove, id).m_Position

\* the running frame's Avoidance update is under way or has finished, its
\* passes interleaved in any way
Interleaving == pc \in {"avoiding", "scan"}

\* C22: in one Avoidance update whose avoiders are processed in any order or
\* interleaved, each avoider's passes over avoidList staying in order: an
\* object that is not a registered avoider, and an avoider none of whose passes
\* has been made, is as the update found it; and when every pass has been made
\* the scene is the one the update yields when it processes the avoiders in
\* registration order.
C22_AvoiderOrderIrrelevant ==
    Interleaving =>
        LET start == AvoidanceStart
        IN  /\ \A id \in IDs(s_Objects) :
                  (\A k \in 1 .. Len(progress.tested) :
                      At(s_AvoidanceSystem.objectList, k - 1) = id => progress.tested[k] = 0)
                  => At(s_Objects, id) = At(start, id)
            /\ pc = "scan" =>
                  s_Objects = AvoidanceSystem_UpdateSystem(start, s_AvoidanceSystem, deltaTime)

\* every pass has been made, not in registration order, and two avoiders at
\* least triggered
C22_Witness ==
    /\ pc = "scan"
    /\ ~progress.inOrder
    /\ Cardinality({ id \in IDs(s_Objects) :
                       IsAvoider(id) /\ At(s_Objects, id) # At(AvoidanceStart, id) }) >= 2

-----------------------------------------------------------------------------
(* C23 *)

\* C23 as stated: right after collision resolution has been applied to an
\* avoider for a target, the squared distance of the avoider's new position
\* from the target's position is no longer less than the target's trigger
\* distance squared.
C23_ResolvedOutsideRadius ==
    (JustChecked /\ CheckedDistanceSq < CheckedTriggerSq) =>
        DistanceSq(CheckedGoAfter.m_Position, CheckedAvoidBefore.m_Position) >= CheckedTriggerSq

-----------------------------------------------------------------------------
(* C24 *)

\* the six arrays of the store e, in the order of their declaration
ArraysOf(e) == << e.m_Names, e.m_Positions, e.m_Sprites, e.m_WorldBounds, e.m_Moves, e.m_Flags >>

SameLengths(e) == \A k \in 1 .. 6 : Len(ArraysOf(e)[k]) = Len(e.m_Names)

\* C24: after any sequence of AddEntity calls (and writes through the IDs
\* they returned) the six arrays of the store have the same length; and an
\* AddEntity call on that store returns that length as the new ID, leaves the
\* arrays one longer, the new entity's presence mask zero, and every earlier
\* entity at its index with its name, components and mask unchanged.
C24_ParallelArrays ==
    /\ SameLengths(soa_Objects)
    /\ \A name \in EntityNames :
          LET added == Entities_AddEntity(soa_Objects, name)
          IN  /\ added.id = Len(soa_Objects.m_Names)
              /\ SameLengths(added.e)
              /\ Len(added.e.m_Names) = added.id + 1
              /\ At(added.e.m_Flags, added.id) = 0
              /\ At(added.e.m_Names, added.id) = name
              /\ \A k \in 1 .. 6 : \A j \in 1 .. added.id :
                    ArraysOf(added.e)[k][j] = ArraysOf(soa_Objects)[k][j]

\* the last AddEntity call returned ID MaxEntities - 1 for an entity whose
\* mask is still zero, and every earlier entity has been written through its ID
C24_Witness ==
    /\ Size(soa_Objects.m_Names) = MaxEntities
    /\ io = MaxEntities - 1
    /\ At(soa_Objects.m_Flags, io) = 0
    /\ \A id \in 0 .. MaxEntities - 2 :
          /\ HasFlag(At(soa_Objects.m_Flags, id), kFlagMove)
          /\ At(soa_Objects.m_Positions, id) # PositionComponent(0, 0)

-----------------------------------------------------------------------------
(* C25 *)

\* C25: in every state reached once game_initialize has returned, every
\* entity of the store that has the Move flag has the Position flag too.
C25_MoveImpliesPosition ==
    pc # "start" =>
        \A id \in IDs(s_Objects) :
            At(s_Objects, id).m_HasMove = 1 => At(s_Objects, id).m_HasPosition = 1

\* a game_update has returned, the store holds entities that have the Move
\* flag, of both kinds, and one that has neither flag
C25_Witness ==
    /\ AfterUpdate
    /\ \E id \in IDs(s_Objects) : IsAvoider(id) /\ At(s_Objects, id).m_HasMove = 1
    /\ \E id \in IDs(s_Objects) : IsAvoidTarget(id) /\ At(s_Objects, id).m_HasMove = 1
    /\ \E id \in IDs(s_Objects) :
          At(s_Objects, id).m_HasMove = 0 /\ At(s_Objects, id).m_HasPosition = 0

-----------------------------------------------------------------------------
(* C26 *)

\* the position pos lies inside the rectangle bounds, its edges included
Inside(pos, bounds) ==
    /\ pos.x >= bounds.xMin /\ pos.x <= bounds.xMax
    /\ pos.y >= bounds.yMin /\ pos.y <= bounds.yMax

\* the entities that have the Move flag
Moving(objs) == { id \in IDs(objs) : At(objs, id).m_HasMove = 1 }

\* every entity with the Move flag was inside the world bounds when
\* game_initialize returned
StartedInside ==
    \A id \in Moving(created) :
        Inside(At(created, id).m_Position, At(created, s_MoveSystem.boundsID).m_WorldBounds)

\* C26 as stated: when a game_update has returned, the position of every
\* entity that has the Move flag lies inside the world bounds, given that all
\* such entities started inside.
C26_InsideAfterUpdate ==
    (AfterUpdate /\ StartedInside) =>
        \A id \in Moving(s_Objects) : Inside(At(s_Objects, id).m_Position, TheBounds)

\* C26, amended: at every point of a game_update after its MoveSystem update,
\* and when it has returned, every entity that has the Move flag and whose
\* position the frame's collision resolution has not changed lies inside the
\* world bounds, given that all such entities started inside.
C26_InsideUnlessResolved ==
    (FrameBegun /\ StartedInside) =>
        LET start == AvoidanceStart
        IN  \A id \in Moving(s_Objects) :
                At(s_Objects, id).m_Position = At(start, id).m_Position
                => Inside(At(s_Objects, id).m_Position, TheBounds)

\* a game_update has returned in which the MoveSystem update put an entity
\* back onto a bound, and an avoider triggered and is inside the bounds
C26_Witness ==
    /\ AfterUpdate
    /\ StartedInside
    /\ \E id \in Moving(s_Objects) :
          /\ At(s_Objects, id).m_Position = At(AvoidanceStart, id).m_Position
          /\ At(s_Objects, id).m_Move # At(preMove, id).m_Move
          /\ At(s_Objects, id).m_Position.x \in {TheBounds.xMin, TheBounds.xMax}
    /\ \E id \in Moving(s_Objects) :
          /\ At(s_Objects, id).m_Position # At(AvoidanceStart, id).m_Position
          /\ Inside(At(s_Objects, id).m_Position, TheBounds)

-----------------------------------------------------------------------------
(* C27 *)

\* every ID in list is an index of the store
ValidIDs(list) == \A k \in 1 .. Len(list) : list[k] \in IDs(s_Objects)

\* C27 as stated: after any sequence of game_initialize, game_update and
\* game_destroy calls every ID held in MoveSystem.entities, in objectList and
\* in avoidList is a valid index of the store, and the indices the pass of an
\* update loop that is about to run accesses are below the store's size.
C27_HeldIDsValid ==
    /\ ValidIDs(s_MoveSystem.entities)
    /\ ValidIDs(s_AvoidanceSystem.objectList)
    /\ ValidIDs(s_AvoidanceSystem.avoidList)
    /\ pc = "avoid" =>
          /\ At(s_AvoidanceSystem.objectList, io) < Size(s_Objects)
          /\ At(s_AvoidanceSystem.avoidList, ia) < Size(s_Objects)
    /\ pc = "ready" =>
          \A i \in 0 .. Size(s_MoveSystem.entities) - 1 :
              MoveTarget(s_MoveSystem, i) < Size(s_Objects)

-----------------------------------------------------------------------------
(* C28 *)

\* C28: for every entity of the store and each axis, the absolute value of
\* the velocity component is, at every point of any number of game_update
\* calls, the one it had when game_initialize returned.
C28_SpeedPreserved ==
    Live =>
        \A id \in IDs(s_Objects) :
            /\ Abs(At(s_Objects, id).m_Move.velx) = Abs(At(created, id).m_Move.velx)
            /\ Abs(At(s_Objects, id).m_Move.vely) = Abs(At(created, id).m_Move.vely)

\* two game_update calls have returned; an entity moving on both axes has both
\* velocity components negated, another has its velocity as created after the
\* last update changed it
C28_Witness ==
    /\ AfterUpdate
    /\ frames = 2
    /\ \E id \in IDs(s_Objects) :
          /\ At(created, id).m_Move.velx # 0
          /\ At(created, id).m_Move.vely # 0
          /\ At(s_Objects, id).m_Move.velx = -At(created, id).m_Move.velx
          /\ At(s_Objects, id).m_Move.vely = -At(created, id).m_Move.vely
    /\ \E id \in IDs(s_Objects) :
          /\ At(created, id).m_Move # MoveComponent(0, 0)
          /\ At(s_Objects, id).m_Move = At(created, id).m_Move
          /\ At(preMove, id).m_Move # At(created, id).m_Move

-----------------------------------------------------------------------------
(* C29 *)

\* white, the colour game_initialize gives to a regular entity
White == << ColorScale, ColorScale, ColorScale >>

\* the colours game_initialize gave to the registered avoid-targets
TargetColors ==
    { ColorOf(At(created, s_AvoidanceSystem.avoidList[k])) :
          k \in 1 .. Len(s_AvoidanceSystem.avoidList) }

\* C29: at every point of any number of game_update calls, the colour of
\* every registered avoider is white or the colour of one of the registered
\* avoid-targets, and the colour of every avoid-target is the one it had when
\* game_initialize returned.
C29_ColorsFromTargets ==
    Live =>
        \A id \in IDs(s_Objects) :
            /\ IsAvoider(id) => ColorOf(At(s_Objects, id)) \in {White} \cup TargetColors
            /\ IsAvoidTarget(id) => ColorOf(At(s_Objects, id)) = ColorOf(At(created, id))

\* two game_update calls have returned, the targets have two colours, one
\* avoider is still white, and one avoider that took a target's colour in the
\* first update has a target's colour after the second
C29_Witness ==
    /\ AfterUpdate
    /\ frames = 2
    /\ Cardinality(TargetColors) = 2
    /\ \E id \in IDs(s_Objects) : IsAvoider(id) /\ ColorOf(At(s_Objects, id)) = White
    /\ \E id \in IDs(s_Objects) :
          /\ IsAvoider(id)
          /\ ColorOf(At(preMove, id)) \in TargetColors
          /\ ColorOf(At(preMove, id)) # White
          /\ ColorOf(At(s_Objects, id)) \in TargetColors

-----------------------------------------------------------------------------
(* C30 *)

====
